---------------------------- MODULE Spec2Model ----------------------------
(***************************************************************************)
(* Binary video-container metadata tier of gifizer (src/lib/video-utils.ts).*)
(*                                                                         *)
(* One run of getVideoMetadataFromBinary on one File is modelled as a     *)
(* state machine: format detection, the window reads of parseMP4Metadata,  *)
(* and one action per iteration of each walker loop (tryParseMP4Chunk,     *)
(* parseMoovAtom, parseTrackAtom, parseAVIMetadata, parseAVIHeaderList).   *)
(*                                                                         *)
(* Numbers.  Every integer the walkers handle is the result of JavaScript  *)
(* bitwise operators, i.e. a signed 32-bit integer; the model keeps that   *)
(* width.  A division result (seconds, frame rate) is kept symbolically as *)
(* the record [n, d1, d2] standing for n / (d1 / d2), so no floating-point *)
(* rounding is modelled.                                                   *)
(*                                                                         *)
(* Files.  A File is its size plus the byte runs that are not zero         *)
(* ("segs"); every other byte below size is 0.  The walkers only read at   *)
(* the offsets they compute, so multi-megabyte files need no more work     *)
(* than small ones and the window constants keep their real values.        *)
(***************************************************************************)
EXTENDS Integers, Sequences, FiniteSets, TLC

(***************************************************************************)
(* Bounds of the input family.                                             *)
(***************************************************************************)
\* number of 4-byte words of the small garbage files
MaxGarbageWords == 3
\* number of leading 4-byte words of a fixture that the fuzzer may overwrite
MaxMutatedWords == 33

(***************************************************************************)
(* Four-character codes, as the byte values String.fromCharCode decodes.   *)
(***************************************************************************)
TagMoov == <<109, 111, 111, 118>>
TagMvhd == <<109, 118, 104, 100>>
TagTrak == <<116, 114, 97, 107>>
TagTkhd == <<116, 107, 104, 100>>
TagFtyp == <<102, 116, 121, 112>>
TagMdat == <<109, 100, 97, 116>>
TagRIFF == <<82, 73, 70, 70>>
TagAVI  == <<65, 86, 73, 32>>
TagWAVE == <<87, 65, 86, 69>>
TagLIST == <<76, 73, 83, 84>>
TagHdrl == <<104, 100, 114, 108>>
TagAvih == <<97, 118, 105, 104>>
TagJUNK == <<74, 85, 78, 75>>

(***************************************************************************)
(* Window and size constants of parseMP4Metadata / parseAVIMetadata.       *)
(***************************************************************************)
HeadWindowSize == 512 * 1024
TailWindowSize == 1024 * 1024
WholeFileLimit == 10 * 1024 * 1024
AviWindowSize  == 64 * 1024

Min(a, b) == IF a < b THEN a ELSE b
Max(a, b) == IF a > b THEN a ELSE b

(***************************************************************************)
(* Files and windows.                                                      *)
(***************************************************************************)
\* The value of an index read outside a Uint8Array: JavaScript's undefined.
Undefined == -1

\* Byte i of file f (0 <= i < f.size).
FileByte(f, i) ==
    LET hit == { k \in 1..Len(f.segs) :
                   /\ f.segs[k].off <= i
                   /\ i < f.segs[k].off + Len(f.segs[k].bytes) }
    IN  IF hit = {} THEN 0
        ELSE LET k == CHOOSE j \in hit : TRUE
             IN  f.segs[k].bytes[i - f.segs[k].off + 1]

\* Blob.slice(start, end) followed by arrayBuffer() and new Uint8Array():
\* the window [start, end) clamped to the file, as a view on the file.
BlobSlice(f, start, end) ==
    LET s == IF start < 0 THEN Max(f.size + start, 0) ELSE Min(start, f.size)
        e == IF end < 0 THEN Max(f.size + end, 0) ELSE Min(end, f.size)
    IN  [start |-> s, len |-> Max(e - s, 0)]

\* data[i] of a Uint8Array window d over file f: a byte, or undefined when
\* i is not an index of the array (negative, or >= data.length).
DataByte(f, d, i) ==
    IF 0 <= i /\ i < d.len THEN FileByte(f, d.start + i) ELSE Undefined

\* ToInt32 of an operand of << or |: undefined becomes 0.
ToInt32(b) == IF b = Undefined THEN 0 ELSE b

\* The 32-bit pattern b0 b1 b2 b3 (b0 most significant) as the signed
\* 32-bit integer that JavaScript's << and | produce.
Int32OfBytes(b0, b1, b2, b3) ==
    (IF b0 >= 128 THEN b0 - 256 ELSE b0) * 16777216 + b1 * 65536 + b2 * 256 + b3

\* readUint32BE: (data[o] << 24) | (data[o+1] << 16) | (data[o+2] << 8) | data[o+3]
readUint32BE(f, d, offset) ==
    Int32OfBytes(ToInt32(DataByte(f, d, offset)),
                 ToInt32(DataByte(f, d, offset + 1)),
                 ToInt32(DataByte(f, d, offset + 2)),
                 ToInt32(DataByte(f, d, offset + 3)))

\* readUint32LE: data[o] | (data[o+1] << 8) | (data[o+2] << 16) | (data[o+3] << 24)
readUint32LE(f, d, offset) ==
    Int32OfBytes(ToInt32(DataByte(f, d, offset + 3)),
                 ToInt32(DataByte(f, d, offset + 2)),
                 ToInt32(DataByte(f, d, offset + 1)),
                 ToInt32(DataByte(f, d, offset)))

\* readString: String.fromCharCode(...data.slice(offset, offset + length)),
\* with TypedArray.prototype.slice's clamping of its two indices.
readString(f, d, offset, length) ==
    LET end == offset + length
        s == IF offset < 0 THEN Max(d.len + offset, 0) ELSE Min(offset, d.len)
        e == IF end < 0 THEN Max(d.len + end, 0) ELSE Min(end, d.len)
        n == Max(e - s, 0)
    IN  [k \in 1..n |-> FileByte(f, d.start + s + k - 1)]

\* JavaScript truthiness of an optional number: undefined and 0 are falsy.
\* An optional field is <<>> (absent) or <<v>>.
Truthy(o) == o # <<>> /\ o[1] # 0

\* Math.round(x / 65536) for a 32-bit integer x: floor(x / 65536 + 1/2).
RoundFixed16(x) == (x \div 65536) + (IF x % 65536 >= 32768 THEN 1 ELSE 0)

\* n / (d1 / d2), kept symbolic.
Ratio(n, d1, d2) == [n |-> n, d1 |-> d1, d2 |-> d2]
\* an integer-valued number
Whole(n) == Ratio(n, 1, 1)
\* x > 0 for a number built by Ratio from a positive or zero n, d1, d2 > 0
Positive(r) == r.n > 0 /\ r.d1 > 0 /\ r.d2 > 0


(***************************************************************************)
(* Input files.  The contents below are test inputs: a File may hold any   *)
(* bytes.  The layouts are those the walkers expect (the field offsets of  *)
(* parseMoovAtom, parseTrackAtom and parseAVIHeaderList); fields the       *)
(* walkers never read are left out or zero.                                *)
(***************************************************************************)
\* n as four bytes, most significant first (two's complement for n < 0)
U32BE(n) == << (n \div 16777216) % 256, (n \div 65536) % 256,
               (n \div 256) % 256, n % 256 >>
\* n as four bytes, least significant first
U32LE(n) == << n % 256, (n \div 256) % 256,
               (n \div 65536) % 256, (n \div 16777216) % 256 >>
Zeros(n) == [k \in 1..n |-> 0]

\* a file made of the bytes bs
Lit(bs) == [size |-> Len(bs),
            segs |-> IF bs = <<>> THEN <<>> ELSE << [off |-> 0, bytes |-> bs] >>]
\* a file of n zero bytes
Gap(n) == [size |-> n, segs |-> <<>>]
\* file a followed by file b
Cat(a, b) ==
    [size |-> a.size + b.size,
     segs |-> a.segs \o [k \in 1..Len(b.segs) |->
                           [off |-> b.segs[k].off + a.size,
                            bytes |-> b.segs[k].bytes]]]

\* size + tag + body
Box(tag, body) == U32BE(8 + Len(body)) \o tag \o body

\* mvhd as parseMoovAtom reads it: version/flags, creation and modification
\* time (4 bytes each in version 0, 8 in version 1), timescale, duration
\* (4 bytes in version 0; 8 in version 1, high word zero), then the rate.
MvhdBox(version, timescale, duration) ==
    Box(TagMvhd,
        <<version, 0, 0, 0>>
        \o (IF version = 1 THEN Zeros(16) ELSE Zeros(8))
        \o U32BE(timescale)
        \o (IF version = 1 THEN Zeros(4) ELSE <<>>)
        \o U32BE(duration)
        \o <<0, 1, 0, 0>>)

\* the unity matrix of a track header, 9 words
UnityMatrix ==
    <<0, 1, 0, 0>> \o Zeros(12) \o <<0, 1, 0, 0>> \o Zeros(12) \o <<64, 0, 0, 0>>

\* tkhd as parseTrackAtom reads it: version/flags, 20 bytes (version 0) or
\* 32 bytes (version 1), the 36-byte matrix, then width and height (16.16).
TkhdBox(version, widthFixed, heightFixed) ==
    Box(TagTkhd,
        <<version, 0, 0, 7>>
        \o (IF version = 1 THEN Zeros(32) ELSE Zeros(20))
        \o UnityMatrix
        \o U32BE(widthFixed) \o U32BE(heightFixed))

MoovBox(m) ==
    Box(TagMoov,
        MvhdBox(m.version, m.timescale, m.duration)
        \o Box(TagTrak, TkhdBox(m.version, m.widthFixed, m.heightFixed)))

FtypBox == Box(TagFtyp, <<>>)

\* header of an mdat box with n payload bytes
MdatHeader(n) == U32BE(8 + n) \o TagMdat

\* moov before the media data
FastStartFile(m, payload) ==
    Cat(Lit(FtypBox \o MoovBox(m) \o MdatHeader(payload)), Gap(payload))
\* moov relocated to the end of the file
NonFastStartFile(m, payload) ==
    Cat(Cat(Lit(FtypBox \o MdatHeader(payload)), Gap(payload)), Lit(MoovBox(m)))

MinInt32 == -2147483647 - 1

\* movie header values: version, timescale, duration (ticks), width, height
Movies ==
    { [version |-> v, timescale |-> t[1], duration |-> t[2],
       widthFixed |-> w[1], heightFixed |-> w[2]] :
        v \in {0, 1},
        t \in { <<1000, 5000>>, <<0, 5000>>, <<MinInt32, 5000>>, <<600, 0>> },
        w \in { <<1280 * 65536, 720 * 65536>>, <<0, 0>>,
                <<MinInt32, 720 * 65536>>, <<98304, 98303>> } }

\* the movie of the spec's scenario
Movie5s == [version |-> 0, timescale |-> 1000, duration |-> 5000,
            widthFixed |-> 1280 * 65536, heightFixed |-> 720 * 65536]

\* bytes of a file with no media payload: ftyp, moov
SmallMP4Bytes == FtypBox \o MoovBox(Movie5s)

\* bytes of a file of three empty boxes and no moov
ThreeBoxBytes == FtypBox \o FtypBox \o FtypBox

\* total file sizes around the three window limits
FileSizes ==
    { 1000, HeadWindowSize - 1, HeadWindowSize, HeadWindowSize + 1,
      TailWindowSize, TailWindowSize + 1, 2 * TailWindowSize,
      WholeFileLimit, WholeFileLimit + 1 }

\* payload of an mdat that brings the file of movie m to size s
PayloadFor(m, s) == s - Len(FtypBox \o MoovBox(m)) - 8

NoMovie == [version |-> 0, timescale |-> 0, duration |-> 0,
            widthFixed |-> 0, heightFixed |-> 0]
NoHeader == [microSecPerFrame |-> 0, totalFrames |-> 0, width |-> 0, height |-> 0]

\* An input: a file, and what it was built from (kind "faststart" or
\* "nonfaststart" with its movie, "avi" with its header, "other").  A field
\* value v < 0 of a movie or header stands for the unsigned 32-bit value
\* v + 2^32 that the file holds.
Input(f, kind, m, a) ==
    [file |-> f, truth |-> [kind |-> kind, movie |-> m, header |-> a]]
Other(f) == Input(f, "other", NoMovie, NoHeader)

MP4Fixtures ==
    { Input(FastStartFile(m, PayloadFor(m, s)), "faststart", m, NoHeader) :
        m \in Movies, s \in FileSizes }
    \cup { Input(NonFastStartFile(m, PayloadFor(m, s)), "nonfaststart", m, NoHeader) :
             m \in Movies, s \in FileSizes }

\* avih as parseAVIHeaderList reads it: microSecPerFrame at body offset 0,
\* totalFrames at 8, width at 24, height at 28; 56 bytes of body.
AvihChunk(a) ==
    TagAvih \o U32LE(56)
    \o U32LE(a.microSecPerFrame) \o Zeros(4) \o U32LE(a.totalFrames)
    \o Zeros(12) \o U32LE(a.width) \o U32LE(a.height) \o Zeros(24)

\* a chunk of odd size and its pad byte, or nothing
JunkChunk(odd) == IF odd THEN TagJUNK \o U32LE(3) \o <<1, 2, 3, 0>> ELSE <<>>

\* RIFF 'AVI ' [JUNK] LIST 'hdrl' { [JUNK] avih } LIST 'movi'
AVIBytes(a, junkTop, junkHdrl) ==
    LET hdrl == TagHdrl \o JunkChunk(junkHdrl) \o AvihChunk(a)
        body == TagAVI \o JunkChunk(junkTop)
                \o TagLIST \o U32LE(Len(hdrl)) \o hdrl
                \o TagLIST \o U32LE(4) \o <<109, 111, 118, 105>>
    IN  TagRIFF \o U32LE(Len(body)) \o body

AviHeaders ==
    { [microSecPerFrame |-> u, totalFrames |-> n, width |-> w[1], height |-> w[2]] :
        u \in {33333, 0, MinInt32},
        n \in {150, 0, MinInt32 + 150},
        w \in { <<640, 480>>, <<0, 480>>, <<MinInt32 + 640, 480>> } }

Avi5s == [microSecPerFrame |-> 33333, totalFrames |-> 150, width |-> 640, height |-> 480]

AVIFixtures ==
    { Input(Lit(AVIBytes(a, jt, jh)), "avi", NoMovie, a) :
        a \in AviHeaders, jt \in BOOLEAN, jh \in BOOLEAN }
    \cup { Input(Cat(Lit(AVIBytes(Avi5s, FALSE, FALSE)
                         \o TagLIST \o U32LE(AviWindowSize)),
                     Gap(AviWindowSize)),
                 "avi", NoMovie, Avi5s) }
    \cup { Other(Lit(TagRIFF \o U32LE(4) \o TagWAVE \o Zeros(8))) }

\* Words the fuzzer writes over a fixture.  The two values at the very end
\* of the 32-bit range are left out: JavaScript adds sizes and offsets as
\* doubles, which do not wrap, and the sums must fit TLC's 32-bit integers.
FuzzWords ==
    { <<0, 0, 0, 0>>, <<0, 0, 0, 8>>, <<0, 0, 0, 12>>, <<255, 255, 255, 248>>,
      <<128, 0, 0, 16>>, <<16, 0, 0, 128>>, <<248, 255, 255, 255>>, <<8, 0, 0, 0>>,
      <<1, 0, 0, 0>>, <<0, 0, 1, 0>>,
      TagMoov, TagMvhd, TagTrak, TagTkhd, TagRIFF, TagAVI, TagLIST, TagHdrl, TagAvih }

\* bs with its word number k (from 0) replaced by w
Overwrite(bs, k, w) ==
    [i \in 1..Len(bs) |-> IF i > 4 * k /\ i <= 4 * k + 4 THEN w[i - 4 * k] ELSE bs[i]]

Mutations(bs) ==
    { Other(Lit(Overwrite(bs, k, w))) :
        k \in 0..(Min(MaxMutatedWords, Len(bs) \div 4) - 1), w \in FuzzWords }

\* words of the small garbage files
GarbageWords ==
    { <<0, 0, 0, 0>>, <<0, 0, 0, 8>>, <<0, 0, 0, 2>>, <<255, 255, 255, 254>>,
      <<255, 255, 255, 248>>, TagMoov, TagRIFF, TagAVI }

RECURSIVE WordSeqs(_)
\* all byte strings made of n garbage words
WordSeqs(n) ==
    IF n = 0 THEN { <<>> }
    ELSE { w \o s : w \in GarbageWords, s \in WordSeqs(n - 1) }

\* every prefix (0 bytes included) of every string of MaxGarbageWords words
GarbageFiles ==
    { Other(Lit(SubSeq(s, 1, n))) : s \in WordSeqs(MaxGarbageWords),
                             n \in 0..(4 * MaxGarbageWords) }

\* every truncation of the small MP4 and AVI files
TruncatedFiles ==
    { Other(Lit(SubSeq(SmallMP4Bytes, 1, n))) : n \in 0..Len(SmallMP4Bytes) }
    \cup { Other(Lit(SubSeq(AVIBytes(Avi5s, FALSE, FALSE), 1, n))) :
             n \in 0..Len(AVIBytes(Avi5s, FALSE, FALSE)) }

TagFree == <<102, 114, 101, 101>>

\* width and height (16.16) of the track headers of the files below
TrackSizes ==
    { <<1280 * 65536, 720 * 65536>>, <<640 * 65536, 360 * 65536>>, <<0, 0>> }

\* ftyp, then a moov of one mvhd (1000 ticks a second, 5000 ticks) and two
\* trak boxes, each with a tkhd of its own size
TwoTrakBytes(a, b) ==
    FtypBox
    \o Box(TagMoov, MvhdBox(0, 1000, 5000)
                    \o Box(TagTrak, TkhdBox(0, a[1], a[2]))
                    \o Box(TagTrak, TkhdBox(0, b[1], b[2])))

\* size words of a malformed box: zero, longer than what encloses it, and
\* longer than 2^31
BadSizes == { <<0, 0, 0, 0>>, <<0, 0, 1, 0>>, <<255, 255, 255, 248>> }

\* a box header with the size word w, and 8 bytes after it
BadBox(w) == w \o TagFree \o Zeros(8)

\* a moov whose first trak holds an empty box and then a malformed one, and
\* whose second trak is sound (640 x 360)
BadTrakBytes(w) ==
    FtypBox
    \o Box(TagMoov, MvhdBox(0, 1000, 5000)
                    \o Box(TagTrak, Box(TagFree, <<>>) \o BadBox(w))
                    \o Box(TagTrak, TkhdBox(0, 640 * 65536, 360 * 65536)))

\* a moov whose mvhd is followed by a malformed box and then a sound trak
BadSiblingBytes(w) ==
    FtypBox
    \o Box(TagMoov, MvhdBox(0, 1000, 5000)
                    \o BadBox(w)
                    \o Box(TagTrak, TkhdBox(0, 640 * 65536, 360 * 65536)))

TrakFixtures ==
    { Other(Lit(TwoTrakBytes(a, b))) : a \in TrackSizes, b \in TrackSizes }
    \cup { Other(Lit(BadTrakBytes(w))) : w \in BadSizes }
    \cup { Other(Lit(BadSiblingBytes(w))) : w \in BadSizes }

Inputs ==
    MP4Fixtures \cup AVIFixtures \cup TrakFixtures
    \cup Mutations(SmallMP4Bytes) \cup Mutations(ThreeBoxBytes)
    \cup Mutations(AVIBytes(Avi5s, TRUE, FALSE))
    \cup GarbageFiles \cup TruncatedFiles


(***************************************************************************)
(* State.                                                                  *)
(***************************************************************************)
VARIABLES
    file,     \* the File handed to getVideoMetadataFromBinary
    truth,    \* what the file was built from; never read by the program
    pc,       \* the control point of the invocation
    walkers,  \* the walkers dispatched so far ("avi", "mp4"), in order
    attempt,  \* parseMP4Metadata: 1 head, 2 tail, 3 whole file
    reads,    \* the window reads made by parseMP4Metadata, in order
    results,  \* the records returned by tryParseMP4Chunk, in order
    data,     \* the Uint8Array being walked: [start, len] of the file
    top,      \* locals of tryParseMP4Chunk
    moov,     \* locals of parseMoovAtom
    trak,     \* locals of parseTrackAtom
    avi,      \* locals of parseAVIMetadata
    hdrl,     \* locals of parseAVIHeaderList
    outcome,  \* what getVideoMetadataFromBinary resolved or rejected with
    seen,     \* history: the configurations the current walk has been in
    first,    \* the outcome of an earlier invocation on the same file, if any
    meta,     \* getVideoMetadata: the strategies started and its outcome
    page,     \* the Home component: its React state and pending calls
    calc,     \* the last call of a synchronous helper: name, arguments, result
    converter, \* the FFmpegConverter instance and the calls in flight on it
    upload    \* handleStartConversion: the locals of the Imgur upload loop

\* the state outside getVideoMetadataFromBinary
outer == <<first, meta, page, calc, converter, upload>>

vars == <<file, truth, pc, walkers, attempt, reads, results, data, top, moov, trak,
          avi, hdrl, outcome, seen, first, meta, page, calc, converter, upload>>

\* Everything a step of a walker depends on, the window apart.  The window
\* does not change during a walk and every step is a function of the
\* configuration, so a walk that comes back to a configuration it has been
\* in repeats the same steps for ever.
Config == <<pc, top, moov, trak, avi, hdrl>>

NoData == [start |-> 0, len |-> 0]
NoTop  == [offset |-> 0, duration |-> 0, width |-> 0, height |-> 0, timescale |-> 0]
NoMoov == [offset |-> 0, endOffset |-> 0, duration |-> <<>>, timescale |-> <<>>,
           width |-> <<>>, height |-> <<>>]
NoTrak == [offset |-> 0, endOffset |-> 0, width |-> <<>>, height |-> <<>>]
NoAvi  == [offset |-> 0, width |-> 0, height |-> 0, frameRate |-> <<>>,
           totalFrames |-> 0]
NoHdrl == [offset |-> 0, endOffset |-> 0, width |-> <<>>, height |-> <<>>,
           frameRate |-> <<>>, totalFrames |-> <<>>]

\* a VideoMetadata record; aspectRatio is width / height kept as the pair,
\* <<0, 1>> standing for the literal 0
VideoMetadata(duration, width, height, aspect, fileSize) ==
    [duration |-> duration, width |-> width, height |-> height,
     aspectRatio |-> aspect, fileSize |-> fileSize]
NoMetadata == VideoMetadata(Whole(0), 0, 0, <<0, 1>>, 0)

Pending == [kind |-> "pending", value |-> NoMetadata, message |-> ""]
Resolved(v) == [kind |-> "ok", value |-> v, message |-> ""]
Rejected(m) == [kind |-> "error", value |-> NoMetadata, message |-> m]

MP4Error == "Could not extract complete metadata from binary data"
AVIError == "Could not extract complete AVI metadata"

\* the initial values of the state outside the binary tier
NoCalls == <<>>
NoMeta == [started |-> <<>>, settled |-> <<>>, outcome |-> Pending]
\* Home after its first render and its mount effect (page.tsx lines 16-56):
\* nothing selected (0 stands for null), no metadata, no error, nothing
\* running, the converter reference set; no getVideoMetadata call pending
NoPage ==
    [selectedFile |-> 0, videoMetadata |-> 0, metadataError |-> FALSE,
     isProcessing |-> FALSE, completedResult |-> FALSE, localGifResult |-> FALSE,
     conversionError |-> FALSE, converterRef |-> TRUE,
     pending |-> {}, selections |-> 0, converting |-> 0]
NoCall == [fn |-> "none"]
\* an FFmpegConverter after its constructor, in the browser (ffmpeg-wasm.ts
\* lines 30-38): not loaded, no font; no call in flight, nothing counted
NoConverter ==
    [loaded |-> FALSE, fontLoaded |-> FALSE, font |-> FALSE,
     loading |-> 0, fonting |-> 0, converting |-> "none",
     loads |-> 0, listeners |-> 0, calls |-> 0,
     failed |-> FALSE, terminated |-> FALSE]
\* before the upload loop of handleStartConversion (page.tsx lines 410-412)
NoUpload ==
    [pc |-> "idle", uploadResponse |-> 0, retryCount |-> 0,
     requests |-> <<>>, waits |-> <<>>]

Init ==
    /\ \E i \in Inputs : file = i.file /\ truth = i.truth
    /\ pc = "detect"
    /\ walkers = <<>>
    /\ attempt = 0
    /\ reads = <<>>
    /\ results = <<>>
    /\ data = NoData
    /\ top = NoTop
    /\ moov = NoMoov
    /\ trak = NoTrak
    /\ avi = NoAvi
    /\ hdrl = NoHdrl
    /\ outcome = Pending
    /\ seen = {}
    /\ first = NoCalls
    /\ meta = NoMeta
    /\ page = NoPage
    /\ calc = NoCall
    /\ converter = NoConverter
    /\ upload = NoUpload

(***************************************************************************)
(* getVideoMetadataFromBinary: format detection and dispatch.              *)
(***************************************************************************)
\* a detector that looks at the RIFF signature only
DetectAVI_RiffOnly(f) ==
    readString(f, BlobSlice(f, 0, 12), 0, 4) = TagRIFF

\* the test of lines 77-82 on the first 12 bytes of the file
DetectAVI(f) ==
    LET headerData == BlobSlice(f, 0, 12)
    IN  /\ readString(f, headerData, 0, 4) = TagRIFF
        /\ readString(f, headerData, 8, 4) = TagAVI

Detect ==
    /\ pc = "detect"
    /\ IF DetectAVI(file)
       THEN /\ walkers' = Append(walkers, "avi")
            /\ pc' = "avi_read"
            /\ attempt' = attempt
       ELSE /\ walkers' = Append(walkers, "mp4")
            /\ pc' = "mp4_read"
            /\ attempt' = 1
    /\ seen' = seen
    /\ UNCHANGED <<outer, file, truth, reads, results, data, top, moov, trak, avi, hdrl, outcome>>

(***************************************************************************)
(* parseMP4Metadata: the three windows and the judgement of each attempt.  *)
(***************************************************************************)
\* [start, size] handed to tryParseMP4Chunk by the call at line 220
HeadWindow(size) == [start |-> 0, size |-> Min(HeadWindowSize, size)]
\* a tail window of the head window's size
TailWindow_HeadSized(size) ==
    LET endChunkSize == Min(HeadWindowSize, size)
    IN  [start |-> Max(0, size - endChunkSize), size |-> endChunkSize]

\* ... by the call at line 232
TailWindow(size) ==
    LET endChunkSize == Min(TailWindowSize, size)
    IN  [start |-> Max(0, size - endChunkSize), size |-> endChunkSize]
\* ... by the call at line 243
WholeWindow(size) == [start |-> 0, size |-> size]

WindowOf(k, size) ==
    CASE k = 1 -> HeadWindow(size)
      [] k = 2 -> TailWindow(size)
      [] OTHER -> WholeWindow(size)

SiteOf(k) == CASE k = 1 -> "head" [] k = 2 -> "tail" [] OTHER -> "whole"

\* a completeness test that forgets the height
IsComplete_NoHeight(r) == Positive(r.duration) /\ r.width > 0

\* the test of lines 222, 234 and 245
IsComplete(r) == Positive(r.duration) /\ r.width > 0 /\ r.height > 0

\* a strategy that reads the tail window whatever the head attempt found
NextStep_AlwaysTail(k, r, size) ==
    IF k = 1 THEN "read"
    ELSE IF IsComplete(r) THEN "return"
    ELSE IF k = 2 /\ size <= WholeFileLimit THEN "read"
    ELSE "throw"

\* a strategy that remembers an earlier invocation and then gives up after
\* the head window
NextStep_OnceOnly(k, r, size) ==
    IF IsComplete(r) THEN "return"
    ELSE IF first # <<>> THEN "throw"
    ELSE IF k = 1 THEN "read"
    ELSE IF k = 2 /\ size <= WholeFileLimit THEN "read"
    ELSE "throw"

\* what parseMP4Metadata does with the record r of attempt k
NextStep(k, r, size) ==
    IF IsComplete(r) THEN "return"
    ELSE IF k = 1 THEN "read"
    ELSE IF k = 2 /\ size <= WholeFileLimit THEN "read"
    ELSE "throw"

\* an end of parseMP4Metadata that returns the last record instead
Exhausted_ReturnLast(r) == Resolved(r)

\* line 251
Exhausted(r) == Rejected(MP4Error)

\* tryParseMP4Chunk, lines 259-271: slice the window and start the walk
ReadWindow ==
    /\ pc = "mp4_read"
    /\ LET w == WindowOf(attempt, file.size)
           d == BlobSlice(file, w.start, w.start + w.size)
       IN  /\ data' = d
           /\ reads' = Append(reads, [site |-> SiteOf(attempt),
                                      start |-> d.start, len |-> d.len])
    /\ top' = NoTop
    /\ pc' = "mp4_top"
    /\ seen' = {}
    /\ UNCHANGED <<outer, file, truth, walkers, attempt, results, moov, trak, avi, hdrl, outcome>>

(***************************************************************************)
(* tryParseMP4Chunk: the top-level box loop, lines 272-299.                *)
(***************************************************************************)
TopAtomSize == readUint32BE(file, data, top.offset)
TopAtomType == readString(file, data, top.offset + 4, 4)
\* the loop condition of line 272
TopInLoop == top.offset < data.len - 8
\* the break of lines 279-281
TopBreak == IF TopAtomSize = 0 THEN TRUE ELSE TopAtomSize > data.len - top.offset
\* the walk leaves the loop in the current state
TopLeaves == IF TopInLoop THEN TopBreak ELSE TRUE

\* one iteration that ends at line 298, or enters parseMoovAtom (line 286)
TopStep ==
    /\ pc = "mp4_top"
    /\ ~TopLeaves
    /\ IF TopAtomType = TagMoov
       THEN /\ moov' = [NoMoov EXCEPT
                          !.offset = top.offset + 8,
                          !.endOffset = top.offset + 8
                              + Min(TopAtomSize - 8, data.len - top.offset - 8)]
            /\ pc' = "moov"
            /\ top' = top
       ELSE /\ top' = [top EXCEPT !.offset = top.offset + TopAtomSize]
            /\ pc' = pc
            /\ moov' = moov
    /\ seen' = seen \cup {Config}
    /\ UNCHANGED <<outer, file, truth, walkers, attempt, reads, results, data, trak, avi, hdrl, outcome>>

\* the loop ends: its condition fails, or the break of line 280 is taken
TopExit ==
    /\ pc = "mp4_top"
    /\ TopLeaves
    /\ pc' = "mp4_convert"
    /\ seen' = seen \cup {Config}
    /\ UNCHANGED <<outer, file, truth, walkers, attempt, reads, results, data, top, moov, trak,
                   avi, hdrl, outcome>>

(***************************************************************************)
(* parseMoovAtom, lines 335-400.                                           *)
(***************************************************************************)
MoovAtomSize == readUint32BE(file, data, moov.offset)
MoovAtomType == readString(file, data, moov.offset + 4, 4)
MoovInLoop == moov.offset < moov.endOffset - 8
MoovBreak ==
    IF MoovAtomSize = 0 THEN TRUE ELSE MoovAtomSize > moov.endOffset - moov.offset
MoovLeaves == IF MoovInLoop THEN MoovBreak ELSE TRUE

\* a version-1 layout that skips 24 bytes between the flags and the timescale
MvhdTimeOffset_V1Skips24(version) == IF version = 1 THEN 12 + 24 ELSE 12 + 8

\* byte offset, from the start of an mvhd box, of its timescale field
MvhdTimeOffset(version) == IF version = 1 THEN 12 + 16 ELSE 12 + 8
\* distance from the timescale field to the duration word that is read
MvhdDurationSkip(version) == IF version = 1 THEN 8 ELSE 4

\* lines 364-385: the fields taken from the mvhd box at offset o
MvhdFields(o) ==
    LET version == DataByte(file, data, o + 8)
        timeOffset == o + MvhdTimeOffset(version)
    IN  [timescale |-> readUint32BE(file, data, timeOffset),
         duration |-> readUint32BE(file, data, timeOffset + MvhdDurationSkip(version))]

\* one iteration that ends at line 396, or enters parseTrackAtom (line 389)
MoovStep ==
    /\ pc = "moov"
    /\ ~MoovLeaves
    /\ IF MoovAtomType = TagTrak
       THEN /\ trak' = [NoTrak EXCEPT
                          !.offset = moov.offset + 8,
                          !.endOffset = moov.offset + 8 + (MoovAtomSize - 8)]
            /\ pc' = "trak"
            /\ moov' = moov
       ELSE /\ moov' =
                 IF MoovAtomType = TagMvhd
                 THEN [moov EXCEPT
                         !.timescale = << MvhdFields(moov.offset).timescale >>,
                         !.duration = << MvhdFields(moov.offset).duration >>,
                         !.offset = moov.offset + MoovAtomSize]
                 ELSE [moov EXCEPT !.offset = moov.offset + MoovAtomSize]
            /\ pc' = pc
            /\ trak' = trak
    /\ seen' = seen \cup {Config}
    /\ UNCHANGED <<outer, file, truth, walkers, attempt, reads, results, data, top, avi, hdrl, outcome>>

\* parseMoovAtom returns; lines 291-295 copy its truthy fields and break
MoovReturn ==
    /\ pc = "moov"
    /\ MoovLeaves
    /\ top' = [top EXCEPT
                 !.duration = IF Truthy(moov.duration) THEN moov.duration[1] ELSE @,
                 !.timescale = IF Truthy(moov.timescale) THEN moov.timescale[1] ELSE @,
                 !.width = IF Truthy(moov.width) THEN moov.width[1] ELSE @,
                 !.height = IF Truthy(moov.height) THEN moov.height[1] ELSE @]
    /\ pc' = "mp4_convert"
    /\ seen' = seen \cup {Config}
    /\ UNCHANGED <<outer, file, truth, walkers, attempt, reads, results, data, moov, trak, avi,
                   hdrl, outcome>>

(***************************************************************************)
(* parseTrackAtom, lines 402-454.                                          *)
(***************************************************************************)
TrakAtomSize == readUint32BE(file, data, trak.offset)
TrakAtomType == readString(file, data, trak.offset + 4, 4)
TrakInLoop == trak.offset < trak.endOffset - 8
TrakBreak ==
    IF TrakAtomSize = 0 THEN TRUE ELSE TrakAtomSize > trak.endOffset - trak.offset
\* the loop ends without a tkhd: its condition fails, or the break of line 422
TrakLeaves == IF TrakInLoop THEN TrakBreak ELSE TRUE
\* the box at the current offset is read as a tkhd (line 425)
TrakAtTkhd == IF TrakLeaves THEN FALSE ELSE TrakAtomType = TagTkhd

\* byte offset, from the start of a tkhd box, of its width field:
\* version/flags, the version-dependent block, the matrix
TkhdDimensionOffset(version) == 12 + (IF version = 1 THEN 32 ELSE 20) + 36

\* lines 425-446: the dimensions taken from the tkhd box at offset o
TkhdFields(o) ==
    LET version == DataByte(file, data, o + 8)
        dimensionOffset == o + TkhdDimensionOffset(version)
    IN  [width |-> RoundFixed16(readUint32BE(file, data, dimensionOffset)),
         height |-> RoundFixed16(readUint32BE(file, data, dimensionOffset + 4))]

\* one iteration over a box that is not tkhd, line 450
TrakStep ==
    /\ pc = "trak"
    /\ ~TrakLeaves
    /\ ~TrakAtTkhd
    /\ trak' = [trak EXCEPT !.offset = trak.offset + TrakAtomSize]
    /\ seen' = seen \cup {Config}
    /\ UNCHANGED <<outer, file, truth, pc, walkers, attempt, reads, results, data, top, moov,
                   avi, hdrl, outcome>>

\* what parseTrackAtom returns when it leaves its loop in the current state
TrakResult ==
    IF TrakAtTkhd
    THEN [width |-> << TkhdFields(trak.offset).width >>,
          height |-> << TkhdFields(trak.offset).height >>]
    ELSE [width |-> trak.width, height |-> trak.height]

\* lines 390-393: whether the dimensions of a trak replace those held
TakeTrack(held, t) == Truthy(t.width) /\ Truthy(t.height)

\* parseTrackAtom returns (tkhd found, loop condition false, or break);
\* lines 390-396 of parseMoovAtom take its result and step over the trak
TrakReturn ==
    /\ pc = "trak"
    /\ IF TrakLeaves THEN TRUE ELSE TrakAtTkhd
    /\ moov' = [moov EXCEPT
                  !.width = IF TakeTrack(moov, TrakResult) THEN TrakResult.width ELSE @,
                  !.height = IF TakeTrack(moov, TrakResult) THEN TrakResult.height ELSE @,
                  !.offset = moov.offset + MoovAtomSize]
    /\ pc' = "moov"
    /\ seen' = seen \cup {Config}
    /\ UNCHANGED <<outer, file, truth, walkers, attempt, reads, results, data, top, trak, avi,
                   hdrl, outcome>>

(***************************************************************************)
(* tryParseMP4Chunk, lines 301-320, and the judgement of parseMP4Metadata. *)
(***************************************************************************)
\* lines 302-304: ticks to seconds
ToSeconds(duration, timescale) ==
    IF duration > 0 /\ timescale > 0
    THEN Ratio(duration, timescale, 1)
    ELSE Whole(duration)

\* the record of lines 313-319
ChunkResult(t, fileSize) ==
    VideoMetadata(ToSeconds(t.duration, t.timescale), t.width, t.height,
                  IF t.width > 0 /\ t.height > 0 THEN <<t.width, t.height>> ELSE <<0, 1>>,
                  fileSize)

Convert ==
    /\ pc = "mp4_convert"
    /\ results' = Append(results, ChunkResult(top, file.size))
    /\ pc' = "mp4_judge"
    /\ seen' = seen
    /\ UNCHANGED <<outer, file, truth, walkers, attempt, reads, data, top, moov, trak, avi, hdrl,
                   outcome>>

\* lines 222-251: return the record, go on to the next window, or throw
Judge ==
    /\ pc = "mp4_judge"
    /\ LET r == results[Len(results)]
           step == NextStep(attempt, r, file.size)
       IN  /\ pc' = IF step = "read" THEN "mp4_read" ELSE "done"
           /\ attempt' = IF step = "read" THEN attempt + 1 ELSE attempt
           /\ outcome' = CASE step = "return" -> Resolved(r)
                           [] step = "throw" -> Exhausted(r)
                           [] OTHER -> outcome
    /\ seen' = seen
    /\ UNCHANGED <<outer, file, truth, walkers, reads, results, data, top, moov, trak, avi, hdrl>>

(***************************************************************************)
(* parseAVIMetadata, lines 93-159, and parseAVIHeaderList, lines 161-207.  *)
(***************************************************************************)
\* lines 97-109: read the first 64 KiB and start after the RIFF header
AviRead ==
    /\ pc = "avi_read"
    /\ data' = BlobSlice(file, 0, Min(AviWindowSize, file.size))
    /\ avi' = [NoAvi EXCEPT !.offset = 12]
    /\ pc' = "avi_top"
    /\ seen' = {}
    /\ UNCHANGED <<outer, file, truth, walkers, attempt, reads, results, top, moov, trak, hdrl, outcome>>

\* lines 131-132 and 202-203: the offset of the header after the chunk at
\* offset o of declared size chunkSize (chunkSize % 2 === 1 is false for
\* every negative chunkSize: the remainder takes the sign of the dividend)
NextChunk(o, chunkSize) ==
    o + 8 + chunkSize + (IF chunkSize > 0 /\ chunkSize % 2 = 1 THEN 1 ELSE 0)

\* An iteration of an AVI chunk loop at offset o is idle when it can read
\* no byte of the window: o >= data.length, or o + 4 <= -data.length (slice
\* counts a negative index from the end of the array).  Its chunkId is then
\* the empty string and its chunkSize 0, and all it does is offset += 8.
\* The walkers run such iterations by the million (a declared size near
\* 2^31, or a negative one); the model takes a whole run of them in one
\* step, to the offset at which the run ends.
Idle(o) == IF o >= data.len THEN TRUE ELSE o + 4 <= -data.len
\* the offset after the run of idle iterations that starts at offset o of
\* a loop whose condition is offset < limit
AfterIdleRun(o, limit) ==
    LET stop == IF o >= data.len THEN limit ELSE Min(1 - data.len - 4, limit)
    IN  IF stop <= o THEN o ELSE o + 8 * ((stop - o + 7) \div 8)

AviChunkId == readString(file, data, avi.offset, 4)
AviChunkSize == readUint32LE(file, data, avi.offset + 4)
AviInLoop == avi.offset < data.len - 8
AviIsHdrl ==
    /\ AviChunkId = TagLIST
    /\ readString(file, data, avi.offset + 8, 4) = TagHdrl

\* one iteration that ends at line 132, or enters parseAVIHeaderList (line 123)
AviStep ==
    /\ pc = "avi_top"
    /\ AviInLoop
    /\ IF AviIsHdrl
       THEN /\ hdrl' = [NoHdrl EXCEPT
                          !.offset = avi.offset + 12,
                          !.endOffset = avi.offset + 12 + (AviChunkSize - 4)]
            /\ pc' = "avi_hdrl"
            /\ avi' = avi
       ELSE /\ avi' = [avi EXCEPT !.offset =
                         IF Idle(avi.offset)
                         THEN AfterIdleRun(avi.offset, data.len - 8)
                         ELSE NextChunk(avi.offset, AviChunkSize)]
            /\ pc' = pc
            /\ hdrl' = hdrl
    /\ seen' = seen \cup {Config}
    /\ UNCHANGED <<outer, file, truth, walkers, attempt, reads, results, data, top, moov, trak, outcome>>

HdrlChunkId == readString(file, data, hdrl.offset, 4)
HdrlChunkSize == readUint32LE(file, data, hdrl.offset + 4)
HdrlInLoop == hdrl.offset < hdrl.endOffset - 8

\* byte offsets, from the start of an avih chunk, of the fields read
AvihMicroSecOffset == 8
AvihTotalFramesOffset == 16
AvihWidthOffset == 32
AvihHeightOffset == 36

\* 1000000 / microSecPerFrame, kept as the pair
FrameRate(microSecPerFrame) == [num |-> 1000000, den |-> microSecPerFrame]

\* lines 186-200: the fields taken from the avih chunk at offset o
AvihFields(h, o) ==
    LET microSecPerFrame == readUint32LE(file, data, o + AvihMicroSecOffset)
    IN  [h EXCEPT
           !.totalFrames = << readUint32LE(file, data, o + AvihTotalFramesOffset) >>,
           !.width = << readUint32LE(file, data, o + AvihWidthOffset) >>,
           !.height = << readUint32LE(file, data, o + AvihHeightOffset) >>,
           !.frameRate = IF microSecPerFrame > 0
                         THEN << FrameRate(microSecPerFrame) >> ELSE @]

\* one iteration of the loop of lines 180-204
HdrlStep ==
    /\ pc = "avi_hdrl"
    /\ HdrlInLoop
    /\ hdrl' = [(IF HdrlChunkId = TagAvih THEN AvihFields(hdrl, hdrl.offset) ELSE hdrl)
                  EXCEPT !.offset =
                      IF Idle(hdrl.offset)
                      THEN AfterIdleRun(hdrl.offset, hdrl.endOffset - 8)
                      ELSE NextChunk(hdrl.offset, HdrlChunkSize)]
    /\ seen' = seen \cup {Config}
    /\ UNCHANGED <<outer, file, truth, pc, walkers, attempt, reads, results, data, top, moov,
                   trak, avi, outcome>>

\* parseAVIHeaderList returns; lines 124-132 copy its truthy fields and
\* step over the LIST chunk
HdrlReturn ==
    /\ pc = "avi_hdrl"
    /\ ~HdrlInLoop
    /\ avi' = [avi EXCEPT
                 !.width = IF Truthy(hdrl.width) THEN hdrl.width[1] ELSE @,
                 !.height = IF Truthy(hdrl.height) THEN hdrl.height[1] ELSE @,
                 !.frameRate = IF hdrl.frameRate # <<>> THEN hdrl.frameRate ELSE @,
                 !.totalFrames = IF Truthy(hdrl.totalFrames) THEN hdrl.totalFrames[1] ELSE @,
                 !.offset = NextChunk(avi.offset, AviChunkSize)]
    /\ pc' = "avi_top"
    /\ seen' = seen \cup {Config}
    /\ UNCHANGED <<outer, file, truth, walkers, attempt, reads, results, data, top, moov, trak,
                   hdrl, outcome>>

\* lines 136-138: totalFrames / frameRate when both are positive.  A frame
\* rate, once set, is 1000000 / n with n > 0, so it is positive.
AviDuration(a) ==
    IF a.totalFrames > 0 /\ a.frameRate # <<>>
    THEN Ratio(a.totalFrames, a.frameRate[1].num, a.frameRate[1].den)
    ELSE Whole(0)

\* lines 148-158: the record, or the error
AviOutcome(a, fileSize) ==
    LET r == VideoMetadata(AviDuration(a), a.width, a.height,
                           <<a.width, a.height>>, fileSize)
    IN  IF Positive(r.duration) /\ r.width > 0 /\ r.height > 0
        THEN Resolved(r)
        ELSE Rejected(AVIError)

\* the loop of line 111 ends: lines 135-158
AviFinish ==
    /\ pc = "avi_top"
    /\ ~AviInLoop
    /\ outcome' = AviOutcome(avi, file.size)
    /\ pc' = "done"
    /\ seen' = seen
    /\ UNCHANGED <<outer, file, truth, walkers, attempt, reads, results, data, top, moov, trak,
                   avi, hdrl>>

(***************************************************************************)
(* The invocation.                                                         *)
(***************************************************************************)
Next ==
    \/ Detect
    \/ ReadWindow
    \/ TopStep
    \/ TopExit
    \/ MoovStep
    \/ MoovReturn
    \/ TrakStep
    \/ TrakReturn
    \/ Convert
    \/ Judge
    \/ AviRead
    \/ AviStep
    \/ HdrlStep
    \/ HdrlReturn
    \/ AviFinish

Spec == Init /\ [][Next]_vars

\* The invocation runs to completion: JavaScript runs each step of an async
\* function once the read it awaits has settled, and nothing else can keep
\* the next step from being taken.
FairSpec == Spec /\ WF_vars(Next)

(***************************************************************************)
(* Properties.                                                             *)
(***************************************************************************)
Done == pc = "done"

\* the completeness of a record, spelled out: duration, width, height > 0
CompleteRecord(r) ==
    /\ r.duration.n > 0 /\ r.duration.d1 > 0 /\ r.duration.d2 > 0
    /\ r.width > 0
    /\ r.height > 0

\* C1: a VideoMetadata that the binary tier returns (MP4 or AVI path) has
\* duration > 0, width > 0 and height > 0; an incomplete record is never
\* the outcome of a successful invocation.
C1_ReturnedRecordIsComplete ==
    outcome.kind = "ok" => CompleteRecord(outcome.value)

\* a file with a negative height field next to a good width and duration
\* went through all three windows and was rejected
C1_Witness ==
    /\ Done
    /\ outcome.kind = "error"
    /\ Len(results) = 3
    /\ results[3].height < 0
    /\ results[3].width > 0
    /\ results[3].duration.n > 0

\* C3: on a file of fewer than 12 bytes (0 bytes included) the invocation
\* never repeats a configuration and can always take its next step, so it
\* ends; and it ends with one of the two metadata-unavailable errors, never
\* with a record.
C3_ShortFileIsUnavailable ==
    file.size < 12 =>
        /\ Config \notin seen
        /\ ~Done => ENABLED Next
        /\ Done => outcome.kind = "error" /\ outcome.message \in {MP4Error, AVIError}

\* an 11-byte file whose walk entered the box loop and moved on
C3_Witness ==
    /\ Done
    /\ file.size = 11
    /\ outcome.kind = "error"
    /\ Len(reads) = 3
    /\ top.offset > 0

\* C4: the window reads of parseMP4Metadata are a prefix of head, tail,
\* whole file; a window is read only after every earlier attempt returned
\* an incomplete record, and none is read after a complete one.
C4_WindowsInOrder ==
    /\ Len(reads) <= 3
    /\ \A k \in 1..Len(reads) : reads[k].site = <<"head", "tail", "whole">>[k]
    /\ \A k \in 2..Len(reads) :
         Len(results) >= k - 1 /\ ~CompleteRecord(results[k - 1])
    /\ \A k \in 1..Len(results) :
         CompleteRecord(results[k]) => Len(reads) = k

\* a fast-start file: the head attempt is complete, one window was read
C4_Witness ==
    /\ Done
    /\ outcome.kind = "ok"
    /\ Len(reads) = 1
    /\ truth.kind = "faststart"

\* C5: head = [0, min(512 KiB, S)), tail = [max(0, S - min(1 MiB, S)), S),
\* whole = [0, S) and only when S <= 10 MiB; above 10 MiB the function
\* throws after two reads.
C5_WindowBounds ==
    LET S == file.size
        tail == IF S < 1048576 THEN S ELSE 1048576
    IN  /\ \A k \in 1..Len(reads) :
             CASE reads[k].site = "head" ->
                    /\ reads[k].start = 0
                    /\ reads[k].len = (IF S < 524288 THEN S ELSE 524288)
               [] reads[k].site = "tail" ->
                    /\ reads[k].start = (IF S - tail > 0 THEN S - tail ELSE 0)
                    /\ reads[k].start + reads[k].len = S
                    /\ reads[k].len = tail
               [] OTHER ->
                    /\ reads[k].start = 0
                    /\ reads[k].len = S
                    /\ S <= 10485760
        /\ (S > 10485760 /\ Done /\ outcome.kind = "error" => Len(reads) = 2)

\* a file one byte over 10 MiB was given up after the head and tail reads
C5_Witness ==
    /\ Done
    /\ file.size = 10485761
    /\ outcome.kind = "error"
    /\ Len(reads) = 2
    /\ reads[2].start = 10485761 - 1048576

\* bytes i+1 .. i+4 of the file, when it has them
FileWord(i) ==
    IF i + 4 <= file.size
    THEN << FileByte(file, i), FileByte(file, i + 1),
            FileByte(file, i + 2), FileByte(file, i + 3) >>
    ELSE <<>>

\* C6: the AVI walker runs iff bytes 0-3 are 'RIFF' and bytes 8-11 'AVI ';
\* otherwise the MP4 walker runs; exactly one walker runs, and an AVI
\* failure is the outcome, with no MP4 window read after it.
C6_FormatDetection ==
    /\ pc # "detect" =>
         walkers = << IF FileWord(0) = TagRIFF /\ FileWord(8) = TagAVI
                      THEN "avi" ELSE "mp4" >>
    /\ walkers = <<"avi">> => reads = <<>> /\ results = <<>>
    /\ walkers = <<"avi">> /\ outcome.kind = "error" => outcome.message = AVIError

\* a RIFF file that is not an AVI went to the MP4 walker
C6_Witness ==
    /\ Done
    /\ FileWord(0) = TagRIFF
    /\ FileWord(8) = TagWAVE
    /\ walkers = <<"mp4">>

\* C2: for every window content the walkers finish without raising an
\* error: no walk comes back to a configuration it was in before (it would
\* then repeat for ever), a step can always be taken until the invocation
\* is done, and the only errors raised are the two metadata-unavailable
\* errors.
C2_WalkersFinish ==
    /\ pc \in {"mp4_top", "moov", "trak", "avi_hdrl"} => Config \notin seen
    /\ ~Done => ENABLED Next
    /\ outcome.kind = "error" => outcome.message \in {MP4Error, AVIError}

\* the record of the tail attempt, when there was one
TailRecord == results[2]

\* C7: for a valid non-fast-start MP4 (moov at the end of the file, inside
\* the last min(1 MiB, S) bytes) whose head attempt was incomplete, the
\* record of the tail attempt has the movie's duration, width and height,
\* the files larger than 1 MiB included.
C7_TailWindowAlone ==
    ( /\ truth.kind = "nonfaststart"
      /\ truth.movie = Movie5s
      /\ Len(results) >= 2 )
    => /\ TailRecord.duration = Ratio(5000, 1000, 1)
       /\ TailRecord.width = 1280
       /\ TailRecord.height = 720

\* the four bytes at offset i of the window, when the window has them
WindowWord(i) ==
    IF i >= 0 /\ i + 4 <= data.len
    THEN << FileByte(file, data.start + i), FileByte(file, data.start + i + 1),
            FileByte(file, data.start + i + 2), FileByte(file, data.start + i + 3) >>
    ELSE <<>>

\* v is the unsigned 32-bit number spelled by the big-endian word w
IsUnsignedBE(v, w) == v >= 0 /\ U32BE(v) = w
\* v is the unsigned 32-bit number spelled by the little-endian word w
IsUnsignedLE(v, w) == v >= 0 /\ U32LE(v) = w

\* the walker is at an mvhd box of version 0 whose fields the window holds
AtMvhdVersion0 ==
    /\ pc = "moov"
    /\ IF MoovLeaves THEN FALSE ELSE MoovAtomType = TagMvhd
    /\ DataByte(file, data, moov.offset + 8) = 0
    /\ WindowWord(moov.offset + 8 + 16) # <<>>

\* C8: at an mvhd of version 0 the timescale taken is the u32BE at body
\* offset 12 and the duration the u32BE at body offset 16 (body = box + 8);
\* and a record returned by the MP4 walker has duration = duration ticks /
\* timescale, with the ticks and the timescale it read.
C8_MvhdVersion0 ==
    /\ AtMvhdVersion0 =>
         /\ IsUnsignedBE(MvhdFields(moov.offset).timescale,
                         WindowWord(moov.offset + 8 + 12))
         /\ IsUnsignedBE(MvhdFields(moov.offset).duration,
                         WindowWord(moov.offset + 8 + 16))
    /\ (walkers = <<"mp4">> /\ outcome.kind = "ok") =>
         /\ top.timescale > 0
         /\ outcome.value.duration = Ratio(top.duration, top.timescale, 1)

\* round(raw / 65536) for the unsigned big-endian word w
RoundedWord(w) == w[1] * 256 + w[2] + (IF w[3] >= 128 THEN 1 ELSE 0)

\* the walker is at a tkhd box of version 0 or 1 whose width and height
\* the window holds; the offset of its width field from the box start
TkhdWidthAt ==
    trak.offset + 8 + 4
    + (IF DataByte(file, data, trak.offset + 8) = 1 THEN 32 ELSE 20) + 36
AtTkhd ==
    /\ pc = "trak"
    /\ TrakAtTkhd
    /\ DataByte(file, data, trak.offset + 8) \in {0, 1}
    /\ WindowWord(TkhdWidthAt + 4) # <<>>

\* C9: the width and height taken from a tkhd are round(raw / 65536) of the
\* two u32BE words that follow version/flags, the 20- or 32-byte block and
\* the 36-byte matrix.
C9_TkhdDimensions ==
    AtTkhd =>
        /\ TrakResult.width = << RoundedWord(WindowWord(TkhdWidthAt)) >>
        /\ TrakResult.height = << RoundedWord(WindowWord(TkhdWidthAt + 4)) >>

\* C10: an AVI whose avih has microSecPerFrame, totalFrames, width and
\* height all > 0 (as u32LE) ends with a record of exactly that width and
\* height and of duration totalFrames / (1000000 / microSecPerFrame).
C10_AvihValues ==
    ( /\ Done
      /\ truth.kind = "avi"
      /\ truth.header.microSecPerFrame # 0
      /\ truth.header.totalFrames # 0
      /\ truth.header.width # 0
      /\ truth.header.height # 0 )
    => /\ outcome.kind = "ok"
       /\ IsUnsignedLE(outcome.value.width, U32LE(truth.header.width))
       /\ IsUnsignedLE(outcome.value.height, U32LE(truth.header.height))
       /\ outcome.value.duration.d1 = 1000000
       /\ IsUnsignedLE(outcome.value.duration.n, U32LE(truth.header.totalFrames))
       /\ IsUnsignedLE(outcome.value.duration.d2, U32LE(truth.header.microSecPerFrame))


(***************************************************************************)
(* The synchronous helpers of video-utils.ts: estimateGifSize,             *)
(* formatEstimatedGifSize, getAspectRatioDisplay.  JavaScript numbers are  *)
(* kept as exact fractions; every product below stays far under 2^53, so   *)
(* the doubles of the code hold the same values wherever the fraction is a *)
(* whole number or a multiple of 1/16.                                     *)
(***************************************************************************)
\* Math.round(p / q) for q > 0: floor(p / q + 1/2)
RoundDiv(p, q) == (p \div q) + (IF 2 * (p % q) >= q THEN 1 ELSE 0)

\* p / q falls exactly between two integers: the one case in which the
\* rounding of a double quotient can differ from that of the fraction
IsTie(p, q) == (2 * p) % (2 * q) = q

\* lines 820-827: colorCounts[settings.quality] || 128
ColorCount_LowIs32(quality) ==
    CASE quality = "low" -> 32
      [] quality = "medium" -> 128
      [] quality = "high" -> 256
      [] OTHER -> 128
ColorCount(quality) ==
    CASE quality = "low" -> 64
      [] quality = "medium" -> 128
      [] quality = "high" -> 256
      [] OTHER -> 128

RECURSIVE Log2(_)
\* Math.log2 of a power of two
Log2(n) == IF n <= 1 THEN 0 ELSE 1 + Log2(n \div 2)

\* settings of a conversion: size, frameRate, quality, and the optional
\* duration (<<>> when absent, else << a number >>)
Settings(size, frameRate, quality, duration) ==
    [size |-> size, frameRate |-> frameRate, quality |-> quality, duration |-> duration]

\* line 816: settings.duration || metadata.duration
EffectiveDuration(metadata, settings) ==
    IF settings.duration # <<>> /\ settings.duration[1].n # 0
    THEN settings.duration[1]
    ELSE metadata.duration

\* lines 802-858, step by step.  targetHeight and totalFrames are whole
\* numbers; bytesPerFrame and baseSize are kept as eighths, estimatedSize as
\* sixteenths.
estimateGifSize(metadata, settings) ==
    LET targetWidth == settings.size
        targetHeight == RoundDiv(targetWidth * metadata.aspectRatio[2],
                                 metadata.aspectRatio[1])
        duration == EffectiveDuration(metadata, settings)
        totalFrames == RoundDiv(duration.n * duration.d2 * settings.frameRate,
                                duration.d1)
        colorCount == ColorCount(settings.quality)
        bitsPerPixel == Log2(colorCount)
        bytesPerFrame8 == targetWidth * targetHeight * bitsPerPixel
        baseSize8 == bytesPerFrame8 * totalFrames
        formatOverhead == 1024 + colorCount * 3
        compressionRatio == 2
        estimatedSize16 == baseSize8 + 8 * formatOverhead
    IN  [targetHeight |-> targetHeight,
         totalFrames |-> totalFrames,
         colorCount |-> colorCount,
         bitsPerPixel |-> bitsPerPixel,
         bytesPerFrame8 |-> bytesPerFrame8,
         result |-> RoundDiv(estimatedSize16, 8 * compressionRatio)]

\* the metadata handed to estimateGifSize: complete records (duration,
\* width, height > 0), as getVideoMetadata returns them
EstimateMetadata ==
    { VideoMetadata(d, w[1], w[2], w, 1000) :
        d \in { Whole(5), Whole(10), Whole(1), Ratio(5, 2, 1),
                Ratio(5000, 1000, 1), Ratio(150, 1000000, 33333) },
        w \in { <<16, 9>>, <<1280, 720>>, <<640, 480>>, <<9, 16>>, <<1, 1>>,
                <<720, 480>>, <<21, 9>> } }

EstimateSettings ==
    { Settings(sz, fr, q, d) :
        sz \in {320, 480, 640},
        fr \in {10, 15, 30},
        q \in {"low", "medium", "high", "best"},
        d \in { <<>>, << Whole(0) >>, << Whole(3) >> } }

\* the calls whose two roundings are the same for doubles and fractions
EstimateCalls ==
    { c \in EstimateMetadata \X EstimateSettings :
        LET d == EffectiveDuration(c[1], c[2])
        IN  /\ ~IsTie(c[2].size * c[1].aspectRatio[2], c[1].aspectRatio[1])
            /\ (IsTie(d.n * d.d2 * c[2].frameRate, d.d1) => d.d1 \in {1, 2}) }

EstimateGifSize ==
    /\ calc.fn = "none"
    /\ \E c \in EstimateCalls :
         calc' = [fn |-> "estimateGifSize", metadata |-> c[1], settings |-> c[2],
                  out |-> estimateGifSize(c[1], c[2])]
    /\ UNCHANGED <<converter, upload, file, truth, pc, walkers, attempt, reads, results, data, top, moov,
                   trak, avi, hdrl, outcome, seen, first, meta, page>>

\* the messages of formatEstimatedGifSize, by what they say
WarningMessage == "size is on the large side"
DangerMessage == "size is very large"

\* lines 865-889; sizeMB = sizeInBytes / (1024 * 1024) is compared as the
\* fraction it is (a division by a power of two is exact).  message is <<>>
\* when the returned object has none.  The string 'formatted' is left out.
formatEstimatedGifSize_DangerFrom10(sizeInBytes) ==
    IF sizeInBytes < 8 * (1024 * 1024)
    THEN [warningLevel |-> "safe", message |-> <<>>]
    ELSE IF sizeInBytes < 10 * (1024 * 1024)
         THEN [warningLevel |-> "warning", message |-> << WarningMessage >>]
         ELSE [warningLevel |-> "danger", message |-> << DangerMessage >>]
formatEstimatedGifSize(sizeInBytes) ==
    IF sizeInBytes < 8 * (1024 * 1024)
    THEN [warningLevel |-> "safe", message |-> <<>>]
    ELSE IF sizeInBytes < 12 * (1024 * 1024)
         THEN [warningLevel |-> "warning", message |-> << WarningMessage >>]
         ELSE [warningLevel |-> "danger", message |-> << DangerMessage >>]

\* byte counts on both sides of the two limits, and every estimate
ByteCounts ==
    { 0, 1, 4253204, 8388607, 8388608, 8388609, 10485760, 12582911, 12582912,
      12582913, 2147483647 }
    \cup { estimateGifSize(c[1], c[2]).result : c \in EstimateCalls }

FormatEstimatedGifSize ==
    /\ calc.fn = "none"
    /\ \E n \in ByteCounts :
         calc' = [fn |-> "formatEstimatedGifSize", sizeInBytes |-> n,
                  out |-> formatEstimatedGifSize(n)]
    /\ UNCHANGED <<converter, upload, file, truth, pc, walkers, attempt, reads, results, data, top, moov,
                   trak, avi, hdrl, outcome, seen, first, meta, page>>

\* lines 775-784: the table, in its order; each ratio as <<numerator,
\* denominator>>
commonRatios ==
    << [ratio |-> <<16, 9>>, display |-> "16:9"],
       [ratio |-> <<4, 3>>, display |-> "4:3"],
       [ratio |-> <<3, 2>>, display |-> "3:2"],
       [ratio |-> <<21, 9>>, display |-> "21:9"],
       [ratio |-> <<1, 1>>, display |-> "1:1"],
       [ratio |-> <<9, 16>>, display |-> "9:16"],
       [ratio |-> <<3, 4>>, display |-> "3:4"],
       [ratio |-> <<2, 3>>, display |-> "2:3"] >>

\* |x - y| for integers
AbsDiff(x, y) == IF x >= y THEN x - y ELSE y - x

\* line 787: Math.abs(aspectRatio - ratio) < tolerance, tolerance = 0.01,
\* for aspectRatio = a[1] / a[2] and ratio = r[1] / r[2]
WithinTolerance_Tenth(a, r) ==
    10 * AbsDiff(a[1] * r[2], r[1] * a[2]) < a[2] * r[2]
WithinTolerance(a, r) ==
    100 * AbsDiff(a[1] * r[2], r[1] * a[2]) < a[2] * r[2]

\* the table entries that aspectRatio matches, by index
Matches(aspectRatio) ==
    { k \in 1..Len(commonRatios) : WithinTolerance(aspectRatio, commonRatios[k].ratio) }

\* lines 786-792: the display of the first entry that matches, or ""
getAspectRatioDisplay(aspectRatio) ==
    IF Matches(aspectRatio) = {}
    THEN ""
    ELSE commonRatios[CHOOSE k \in Matches(aspectRatio) :
                        \A j \in Matches(aspectRatio) : k <= j].display

\* aspect ratios as width / height of a frame, and a few decimal values
\* (1.77 = 177 / 100); none lies within 10^-9 of a table ratio -+ 0.01
AspectRatios ==
    { <<1920, 1080>>, <<1280, 720>>, <<16, 9>>, <<640, 480>>, <<4, 3>>,
      <<720, 480>>, <<3, 2>>, <<2520, 1080>>, <<21, 9>>, <<1080, 1080>>, <<1, 1>>,
      <<1080, 1920>>, <<9, 16>>, <<480, 640>>, <<3, 4>>, <<480, 720>>, <<2, 3>>,
      <<1080, 2520>>, <<9, 21>>,
      <<177, 100>>, <<178, 100>>, <<170, 100>>, <<179, 100>>, <<176, 100>>,
      <<134, 100>>, <<43, 100>>, <<0, 1>>, <<5, 4>> }

GetAspectRatioDisplay ==
    /\ calc.fn = "none"
    /\ \E a \in AspectRatios :
         calc' = [fn |-> "getAspectRatioDisplay", aspectRatio |-> a,
                  out |-> getAspectRatioDisplay(a)]
    /\ UNCHANGED <<converter, upload, file, truth, pc, walkers, attempt, reads, results, data, top, moov,
                   trak, avi, hdrl, outcome, seen, first, meta, page>>

\* byte values on both sides of the sign bit
SampleBytes == {0, 1, 127, 128, 255}

\* every array of four sample bytes
FourBytes == { <<b0, b1, b2, b3>> : b0 \in SampleBytes, b1 \in SampleBytes,
                                    b2 \in SampleBytes, b3 \in SampleBytes }

\* the Uint8Array holding exactly the bytes bs
WholeArray(bs) == [start |-> 0, len |-> Len(bs)]

\* readUint32BE(data, 0) on an array of four bytes
ReadUint32BE ==
    /\ calc.fn = "none"
    /\ \E bs \in FourBytes :
         calc' = [fn |-> "readUint32BE", bytes |-> bs,
                  out |-> readUint32BE(Lit(bs), WholeArray(bs), 0)]
    /\ UNCHANGED <<converter, upload, file, truth, pc, walkers, attempt, reads, results, data, top, moov,
                   trak, avi, hdrl, outcome, seen, first, meta, page>>

\* readUint32LE(data, 0) on an array of four bytes
ReadUint32LE ==
    /\ calc.fn = "none"
    /\ \E bs \in FourBytes :
         calc' = [fn |-> "readUint32LE", bytes |-> bs,
                  out |-> readUint32LE(Lit(bs), WholeArray(bs), 0)]
    /\ UNCHANGED <<converter, upload, file, truth, pc, walkers, attempt, reads, results, data, top, moov,
                   trak, avi, hdrl, outcome, seen, first, meta, page>>

\* Every helper call starts from a page at rest: no file, nothing running.
CalcInit ==
    /\ file = Lit(<<>>)
    /\ truth = Other(Lit(<<>>)).truth
    /\ pc = "idle"
    /\ walkers = <<>>
    /\ attempt = 0
    /\ reads = <<>>
    /\ results = <<>>
    /\ data = NoData
    /\ top = NoTop
    /\ moov = NoMoov
    /\ trak = NoTrak
    /\ avi = NoAvi
    /\ hdrl = NoHdrl
    /\ outcome = Pending
    /\ seen = {}
    /\ first = NoCalls
    /\ meta = NoMeta
    /\ page = NoPage
    /\ calc = NoCall
    /\ converter = NoConverter
    /\ upload = NoUpload

CalcNext ==
    \/ EstimateGifSize
    \/ FormatEstimatedGifSize
    \/ GetAspectRatioDisplay
    \/ ReadUint32BE
    \/ ReadUint32LE

CalcSpec == CalcInit /\ [][CalcNext]_vars

\* C14: estimateGifSize has targetHeight = round(targetWidth / aspectRatio),
\* totalFrames = round(duration * frameRate), colorCount 64 / 128 / 256 for
\* low / medium / high with bitsPerPixel = log2(colorCount), bytesPerFrame =
\* targetWidth * targetHeight * bitsPerPixel / 8, and returns
\* round((bytesPerFrame * totalFrames + 1024 + 3 * colorCount) / 2); 480,
\* 16/9, 5 s, 15 fps, medium give 4,253,204.
C14_EstimateGifSize ==
    calc.fn = "estimateGifSize" =>
        LET m == calc.metadata
            st == calc.settings
            d == EffectiveDuration(m, st)
            w == st.size
            h == calc.out.targetHeight
            f == calc.out.totalFrames
            colours == calc.out.colorCount
            bits == calc.out.bitsPerPixel
            \* twice the bracket of the claim, times 8
            sum8 == w * h * bits * f + 8 * (1024 + 3 * colours)
        IN  \* h is the integer nearest to w / (a / b) = w * b / a
            /\ 2 * m.aspectRatio[1] * h <= 2 * w * m.aspectRatio[2] + m.aspectRatio[1]
            /\ 2 * m.aspectRatio[1] * h > 2 * w * m.aspectRatio[2] - m.aspectRatio[1]
            \* f is the integer nearest to duration * frameRate
            /\ 2 * d.d1 * f <= 2 * d.n * d.d2 * st.frameRate + d.d1
            /\ 2 * d.d1 * f > 2 * d.n * d.d2 * st.frameRate - d.d1
            /\ (st.quality = "low" => colours = 64 /\ bits = 6)
            /\ (st.quality = "medium" => colours = 128 /\ bits = 7)
            /\ (st.quality = "high" => colours = 256 /\ bits = 8)
            /\ calc.out.bytesPerFrame8 = w * h * bits
            \* the result is the integer nearest to sum8 / 16, halves up
            /\ 16 * calc.out.result <= sum8 + 8
            /\ 16 * calc.out.result > sum8 - 8
            /\ ( /\ w = 480 /\ m.aspectRatio = <<16, 9>> /\ d = Whole(5)
                 /\ st.frameRate = 15 /\ st.quality = "medium" )
               => /\ h = 270 /\ f = 75
                  /\ calc.out.bytesPerFrame8 = 8 * 113400
                  /\ calc.out.result = 4253204

\* the scenario of the spec was computed
C14_Witness ==
    /\ calc.fn = "estimateGifSize"
    /\ calc.settings = Settings(480, 15, "medium", <<>>)
    /\ calc.metadata.aspectRatio = <<16, 9>>
    /\ calc.metadata.duration = Whole(5)
    /\ calc.out.result = 4253204

\* C15: formatEstimatedGifSize puts every byte count n >= 0 in exactly one
\* level: safe below 8 MiB, warning from 8 MiB to below 12 MiB, danger from
\* 12 MiB; there is a message exactly for warning and danger.
C15_WarningLevels ==
    calc.fn = "formatEstimatedGifSize" =>
        LET n == calc.sizeInBytes
            level == calc.out.warningLevel
        IN  /\ level \in {"safe", "warning", "danger"}
            /\ level = "safe" <=> n < 8388608
            /\ level = "warning" <=> (n >= 8388608 /\ n < 12582912)
            /\ level = "danger" <=> n >= 12582912
            /\ calc.out.message = <<>> <=> level = "safe"

\* the last byte count below 12 MiB was classified
C15_Witness ==
    /\ calc.fn = "formatEstimatedGifSize"
    /\ calc.sizeInBytes = 12582911
    /\ calc.out.warningLevel = "warning"
    /\ calc.out.message # <<>>

\* the ratios the table is said to hold, with their labels
NamedRatios ==
    { <<16, 9, "16:9">>, <<4, 3, "4:3">>, <<3, 2, "3:2">>, <<21, 9, "21:9">>,
      <<1, 1, "1:1">>, <<9, 16, "9:16">>, <<3, 4, "3:4">>, <<2, 3, "2:3">>,
      <<9, 21, "9:21">> }

\* C16: for 16:9, 4:3, 3:2, 21:9, 1:1 and the inverses 9:16, 3:4, 2:3, 9:21,
\* getAspectRatioDisplay of width / height of a frame in exactly that ratio
\* is that ratio's label; and no input matches two table entries.
C16_CommonRatioLabels ==
    calc.fn = "getAspectRatioDisplay" =>
        /\ \A r \in NamedRatios :
             calc.aspectRatio[1] * r[2] = r[1] * calc.aspectRatio[2]
                 => calc.out = r[3]
        /\ Cardinality(Matches(calc.aspectRatio)) <= 1

\* C17 as stated: getAspectRatioDisplay(1.77) returns the empty string.
C17_OffTable177 ==
    (calc.fn = "getAspectRatioDisplay" /\ calc.aspectRatio = <<177, 100>>)
        => calc.out = ""

\* C17, amended: getAspectRatioDisplay(1.77) returns "16:9", 1.77 being
\* within 0.01 of 16/9; the values 1.70 and 1.79, which are 0.01 or more
\* away from every table ratio, return the empty string.
C17_Within177 ==
    calc.fn = "getAspectRatioDisplay" =>
        /\ calc.aspectRatio = <<177, 100>> => calc.out = "16:9"
        /\ calc.aspectRatio \in { <<170, 100>>, <<179, 100>> } => calc.out = ""

\* 1.77 was looked up and labelled
C17_Witness ==
    /\ calc.fn = "getAspectRatioDisplay"
    /\ calc.aspectRatio = <<177, 100>>
    /\ calc.out = "16:9"

\* v, as an unsigned 32-bit number, has the high half hi and the low half lo
HasHalves(v, hi, lo) == v \div 65536 = hi /\ v % 65536 = lo

\* C18: on four in-bounds bytes b0..b3, readUint32BE returns b0*2^24 +
\* b1*2^16 + b2*2^8 + b3 and readUint32LE returns b0 + b1*2^8 + b2*2^16 +
\* b3*2^24, a value in 0..2^32-1 also when the most significant byte is
\* 0x80 or more.  (The sums are stated by their 16-bit halves.)
C18_ReadsAreUnsigned ==
    LET b == calc.bytes
    IN  /\ calc.fn = "readUint32BE" =>
             /\ calc.out >= 0
             /\ HasHalves(calc.out, b[1] * 256 + b[2], b[3] * 256 + b[4])
        /\ calc.fn = "readUint32LE" =>
             /\ calc.out >= 0
             /\ HasHalves(calc.out, b[4] * 256 + b[3], b[2] * 256 + b[1])

\* a step keeps the walk inside the loop of one nesting level (it goes from
\* one header of the level to the next) and the offset of that level grows
OffsetsIncrease ==
    /\ (pc = "mp4_top" /\ pc' = "mp4_top") => top'.offset > top.offset
    /\ (pc \in {"moov", "trak"} /\ pc' = "moov") => moov'.offset > moov.offset
    /\ (pc = "trak" /\ pc' = "trak") => trak'.offset > trak.offset
    /\ (pc \in {"avi_top", "avi_hdrl"} /\ pc' = "avi_top") => avi'.offset > avi.offset
    /\ (pc = "avi_hdrl" /\ pc' = "avi_hdrl") => hdrl'.offset > hdrl.offset

\* C19: every walker loop terminates: from one visited header to the next
\* the offset of its nesting level strictly increases, and no walk returns
\* to a configuration it has been in, so that the invocation ends with a
\* record or an error.
C19_WalkersTerminate ==
    [][OffsetsIncrease /\ (Config' \notin seen')]_vars

\* the big-endian word w, taken as an unsigned number, is 0 or more than
\* remaining (remaining is below 2^31, a word with the top bit set is not)
ZeroOrOverrun(w, remaining) ==
    IF w[1] >= 128 THEN TRUE
    ELSE \/ w = <<0, 0, 0, 0>>
         \/ Int32OfBytes(w[1], w[2], w[3], w[4]) > remaining

\* the MP4 walk is at a header, inside the loop of a level, whose size word
\* is 0 or overruns what is left of the level
TopSizeIsBad ==
    /\ pc = "mp4_top" /\ TopInLoop /\ WindowWord(top.offset) # <<>>
    /\ ZeroOrOverrun(WindowWord(top.offset), data.len - top.offset)
MoovSizeIsBad ==
    /\ pc = "moov" /\ MoovInLoop /\ WindowWord(moov.offset) # <<>>
    /\ ZeroOrOverrun(WindowWord(moov.offset), moov.endOffset - moov.offset)
TrakSizeIsBad ==
    /\ pc = "trak" /\ TrakInLoop /\ WindowWord(trak.offset) # <<>>
    /\ ZeroOrOverrun(WindowWord(trak.offset), trak.endOffset - trak.offset)

\* C20: in the three MP4 walkers a box whose declared size, as an unsigned
\* 32-bit number, is 0 or exceeds the bytes left at its level ends the
\* iteration of that level at that box: the next step leaves the level,
\* the box is not entered, its fields are not taken and the offset of the
\* level does not move.
C20_BadSizeStopsLevel ==
    [][ /\ TopSizeIsBad => pc' = "mp4_convert" /\ top' = top
        /\ MoovSizeIsBad => pc' = "mp4_convert" /\ moov' = moov
        /\ TrakSizeIsBad => pc' = "moov" /\ moov'.width = moov.width
                            /\ moov'.height = moov.height ]_vars


(***************************************************************************)
(* getVideoMetadata, lines 18-60: the binary tier, then the two HTML5      *)
(* video strategies, then the FFmpeg probe.  The binary tier is the model  *)
(* above; the other three settle as the browser and FFmpeg decide (each    *)
(* has its own timeout), so each may resolve or reject.                    *)
(***************************************************************************)
\* line 53
MetadataUnavailable == "could not get the video details, conversion is still possible"

\* the strategy tried when the strategy s has failed ("" after the last):
\* a chain that goes from the first HTML5 attempt straight to FFmpeg
StrategyAfter_SkipsFallback(s) ==
    CASE s = "binary" -> "primary"
      [] s = "primary" -> "ffmpeg"
      [] OTHER -> ""

\* the nesting of the catch blocks, lines 30, 36, 42, 48
StrategyAfter(s) ==
    CASE s = "binary" -> "primary"
      [] s = "primary" -> "fallback"
      [] s = "fallback" -> "ffmpeg"
      [] OTHER -> ""

\* what a strategy other than the binary tier may settle with
StrategyOutcomes ==
    { Resolved(VideoMetadata(Whole(5), 1280, 720, <<1280, 720>>, file.size)),
      Rejected("strategy failed") }

\* the strategy s has settled with o: return its record (lines 29, 35, 41,
\* 47), or go on to the next strategy, or throw (line 52)
AfterStrategy(s, o) ==
    IF o.kind = "ok"
    THEN /\ meta' = [meta EXCEPT !.settled = Append(@, "ok"),
                                 !.outcome = Resolved(o.value)]
         /\ pc' = "meta_done"
    ELSE IF StrategyAfter(s) = ""
    THEN /\ meta' = [meta EXCEPT !.settled = Append(@, "error"),
                                 !.outcome = Rejected(MetadataUnavailable)]
         /\ pc' = "meta_done"
    ELSE /\ meta' = [meta EXCEPT !.settled = Append(@, "error"),
                                 !.started = Append(@, StrategyAfter(s))]
         /\ pc' = "meta_" \o StrategyAfter(s)

\* line 29: getVideoMetadata starts with the binary tier
MetaCall ==
    /\ pc = "meta_call"
    /\ meta' = [meta EXCEPT !.started = <<"binary">>]
    /\ pc' = "detect"
    /\ UNCHANGED <<converter, upload, file, truth, walkers, attempt, reads, results, data, top, moov,
                   trak, avi, hdrl, outcome, seen, first, page, calc>>

\* the await of line 29 is over
BinarySettled ==
    /\ pc = "done"
    /\ AfterStrategy("binary", outcome)
    /\ UNCHANGED <<converter, upload, file, truth, walkers, attempt, reads, results, data, top, moov,
                   trak, avi, hdrl, outcome, seen, first, page, calc>>

\* the await of line 35 is over
PrimarySettled ==
    /\ pc = "meta_primary"
    /\ \E o \in StrategyOutcomes : AfterStrategy("primary", o)
    /\ UNCHANGED <<converter, upload, file, truth, walkers, attempt, reads, results, data, top, moov,
                   trak, avi, hdrl, outcome, seen, first, page, calc>>

\* the await of line 41 is over
FallbackSettled ==
    /\ pc = "meta_fallback"
    /\ \E o \in StrategyOutcomes : AfterStrategy("fallback", o)
    /\ UNCHANGED <<converter, upload, file, truth, walkers, attempt, reads, results, data, top, moov,
                   trak, avi, hdrl, outcome, seen, first, page, calc>>

\* the await of line 47 is over
FFmpegSettled ==
    /\ pc = "meta_ffmpeg"
    /\ \E o \in StrategyOutcomes : AfterStrategy("ffmpeg", o)
    /\ UNCHANGED <<converter, upload, file, truth, walkers, attempt, reads, results, data, top, moov,
                   trak, avi, hdrl, outcome, seen, first, page, calc>>

\* getVideoMetadata is called on a file
MetaInit ==
    /\ \E i \in Inputs : file = i.file /\ truth = i.truth
    /\ pc = "meta_call"
    /\ walkers = <<>>
    /\ attempt = 0
    /\ reads = <<>>
    /\ results = <<>>
    /\ data = NoData
    /\ top = NoTop
    /\ moov = NoMoov
    /\ trak = NoTrak
    /\ avi = NoAvi
    /\ hdrl = NoHdrl
    /\ outcome = Pending
    /\ seen = {}
    /\ first = NoCalls
    /\ meta = NoMeta
    /\ page = NoPage
    /\ calc = NoCall
    /\ converter = NoConverter
    /\ upload = NoUpload

MetaNext ==
    \/ MetaCall
    \/ Next
    \/ BinarySettled
    \/ PrimarySettled
    \/ FallbackSettled
    \/ FFmpegSettled

MetaSpec == MetaInit /\ [][MetaNext]_vars

\* the order of the strategies
StrategyOrder == <<"binary", "primary", "fallback", "ffmpeg">>

\* C12: the strategies are started in the order binary, primary, fallback,
\* ffmpeg; one is started only after every earlier one has failed; after
\* the first success none is started and its record is returned; and
\* getVideoMetadata rejects only after all four have failed.
C12_StrategiesInOrder ==
    /\ Len(meta.started) <= 4
    /\ meta.started = SubSeq(StrategyOrder, 1, Len(meta.started))
    /\ Len(meta.settled) <= Len(meta.started)
    /\ Len(meta.settled) >= Len(meta.started) - 1
    /\ \A k \in 1..Len(meta.settled) :
         k < Len(meta.started) => meta.settled[k] = "error"
    /\ \A k \in 1..Len(meta.settled) :
         meta.settled[k] = "ok" =>
             /\ k = Len(meta.started)
             /\ meta.outcome.kind = "ok"
    /\ meta.outcome.kind = "ok" =>
         /\ Len(meta.settled) = Len(meta.started)
         /\ meta.settled[Len(meta.settled)] = "ok"
         /\ (meta.started = <<"binary">> => meta.outcome.value = outcome.value)
    /\ meta.outcome.kind = "error" =>
         /\ meta.started = StrategyOrder
         /\ meta.settled = <<"error", "error", "error", "error">>
         /\ meta.outcome.message = MetadataUnavailable

\* the fallback HTML5 strategy succeeded after the first two had failed
C12_Witness ==
    /\ pc = "meta_done"
    /\ meta.started = <<"binary", "primary", "fallback">>
    /\ meta.settled = <<"error", "error", "ok">>
    /\ meta.outcome.kind = "ok"


(***************************************************************************)
(* getVideoMetadataFromBinary called a second time on the same File.       *)
(***************************************************************************)
\* The first invocation has settled and the function is called again with
\* the same file.  The call keeps nothing and clears nothing of the
\* program: whatever the walkers' variables held is still there, and it is
\* the statements of the second invocation that initialise what they use.
\* Only the observations of the invocation (walkers, reads, results, seen)
\* and its promise start afresh.
CallAgain ==
    /\ pc = "done"
    /\ first = <<>>
    /\ first' = << outcome >>
    /\ pc' = "detect"
    /\ outcome' = Pending
    /\ walkers' = <<>>
    /\ reads' = <<>>
    /\ results' = <<>>
    /\ seen' = {}
    /\ UNCHANGED <<converter, upload, file, truth, attempt, data, top, moov, trak, avi, hdrl, meta, page, calc>>

TwiceNext ==
    \/ Next
    \/ CallAgain

TwiceSpec == Init /\ [][TwiceNext]_vars

MaxSelections == 3

\* the files the user picks from
PageFiles == {1, 2}

\* line 693: the FileUpload section is rendered
UploadShown(p) == p.selectedFile = 0 /\ ~p.isProcessing /\ ~p.completedResult

\* line 736: the section of the selected file is rendered
SelectedShown(p) == p.selectedFile # 0 /\ ~p.isProcessing /\ ~p.completedResult

\* a start button that waits for the metadata
StartEnabled_NeedsMetadata(p) ==
    SelectedShown(p) /\ ~p.isProcessing /\ p.videoMetadata # 0

\* lines 783-787: the start button is rendered and not disabled
StartEnabled(p) == SelectedShown(p) /\ ~p.isProcessing

\* lines 799-809, 820-878, 889-951: a reset button is rendered
ResetShown(p) == p.isProcessing \/ p.completedResult \/ p.localGifResult

\* lines 71-78: handleFileSelect up to the await of getVideoMetadata
HandleFileSelect ==
    /\ pc = "idle"
    /\ UploadShown(page)
    /\ page.selections < MaxSelections
    /\ \E f \in PageFiles :
         page' = [page EXCEPT
                    !.selectedFile = f,
                    !.videoMetadata = 0,
                    !.metadataError = FALSE,
                    !.selections = @ + 1,
                    !.pending = @ \cup {[call |-> page.selections + 1, file |-> f]}]
    /\ UNCHANGED <<converter, upload, file, truth, pc, walkers, attempt, reads, results, data, top, moov,
                   trak, avi, hdrl, outcome, seen, first, meta, calc>>

\* lines 78-81: a pending getVideoMetadata resolves
MetadataResolved ==
    /\ pc = "idle"
    /\ \E c \in page.pending :
         page' = [page EXCEPT
                    !.videoMetadata = c.file,
                    !.metadataError = FALSE,
                    !.pending = @ \ {c}]
    /\ UNCHANGED <<converter, upload, file, truth, pc, walkers, attempt, reads, results, data, top, moov,
                   trak, avi, hdrl, outcome, seen, first, meta, calc>>

\* lines 82-86: a pending getVideoMetadata rejects
MetadataRejected ==
    /\ pc = "idle"
    /\ \E c \in page.pending :
         page' = [page EXCEPT
                    !.videoMetadata = 0,
                    !.metadataError = TRUE,
                    !.pending = @ \ {c}]
    /\ UNCHANGED <<converter, upload, file, truth, pc, walkers, attempt, reads, results, data, top, moov,
                   trak, avi, hdrl, outcome, seen, first, meta, calc>>

\* lines 760-769: the clear button of the selected file
ClearSelection ==
    /\ pc = "idle"
    /\ SelectedShown(page)
    /\ page' = [page EXCEPT
                  !.selectedFile = 0, !.videoMetadata = 0, !.metadataError = FALSE]
    /\ UNCHANGED <<converter, upload, file, truth, pc, walkers, attempt, reads, results, data, top, moov,
                   trak, avi, hdrl, outcome, seen, first, meta, calc>>

\* lines 294-300: a click on the start button; the conversion of the
\* selected file is then under way
HandleStartConversion ==
    /\ pc = "idle"
    /\ StartEnabled(page)
    /\ page' = IF page.selectedFile = 0 \/ ~page.converterRef
               THEN page
               ELSE [page EXCEPT
                       !.isProcessing = TRUE,
                       !.conversionError = FALSE,
                       !.converting = page.selectedFile]
    /\ UNCHANGED <<converter, upload, file, truth, pc, walkers, attempt, reads, results, data, top, moov,
                   trak, avi, hdrl, outcome, seen, first, meta, calc>>

\* lines 302-605: the ends of handleStartConversion: the GIF is uploaded
\* (line 572-574), it is kept locally after a failed upload (lines 493-503),
\* or the conversion fails (lines 588-591, isProcessing stays set)
ConversionEnds ==
    /\ pc = "idle"
    /\ page.converting # 0
    /\ \E r \in {"uploaded", "local", "error"} :
         page' = CASE r = "uploaded" ->
                        [page EXCEPT !.completedResult = TRUE, !.isProcessing = FALSE,
                                     !.converting = 0]
                   [] r = "local" ->
                        [page EXCEPT !.localGifResult = TRUE, !.isProcessing = FALSE,
                                     !.converting = 0]
                   [] OTHER ->
                        [page EXCEPT !.conversionError = TRUE, !.converting = 0]
    /\ UNCHANGED <<converter, upload, file, truth, pc, walkers, attempt, reads, results, data, top, moov,
                   trak, avi, hdrl, outcome, seen, first, meta, calc>>

\* lines 608-619: handleReset; a conversion under way goes on
HandleReset ==
    /\ pc = "idle"
    /\ ResetShown(page)
    /\ page' = [page EXCEPT
                  !.selectedFile = 0, !.videoMetadata = 0, !.metadataError = FALSE,
                  !.completedResult = FALSE, !.localGifResult = FALSE,
                  !.conversionError = FALSE, !.isProcessing = FALSE]
    /\ UNCHANGED <<converter, upload, file, truth, pc, walkers, attempt, reads, results, data, top, moov,
                   trak, avi, hdrl, outcome, seen, first, meta, calc>>

PageInit == CalcInit

PageNext ==
    \/ HandleFileSelect
    \/ MetadataResolved
    \/ MetadataRejected
    \/ ClearSelection
    \/ HandleStartConversion
    \/ ConversionEnds
    \/ HandleReset

PageSpec == PageInit /\ [][PageNext]_vars

\* C11: when getVideoMetadata rejects, the selection is left as it is with
\* videoMetadata = null and metadataError set, and the start button of a
\* selected file is enabled whatever videoMetadata is; a click on it with
\* no metadata puts the selected file under conversion.
C11_MetadataNeverBlocks ==
    [][ /\ MetadataRejected =>
             /\ page'.selectedFile = page.selectedFile
             /\ page'.videoMetadata = 0
             /\ page'.metadataError
             /\ page'.isProcessing = page.isProcessing
             /\ SelectedShown(page') => StartEnabled(page')
        /\ StartEnabled(page') <=>
             (page'.selectedFile # 0 /\ ~page'.isProcessing /\ ~page'.completedResult)
        /\ (HandleStartConversion /\ page.videoMetadata = 0) =>
             /\ page'.isProcessing
             /\ page'.converting = page.selectedFile
             /\ page'.selectedFile = page.selectedFile ]_vars

\* the extraction failed and the conversion of the selected file is running
C11_Witness ==
    /\ page.selectedFile # 0
    /\ page.metadataError
    /\ page.videoMetadata = 0
    /\ page.isProcessing
    /\ page.converting = page.selectedFile
    /\ page.pending = {}

(***************************************************************************)
(* The reads of the walkers.                                               *)
(***************************************************************************)
\* a read of width bytes at offset of the window
ReadAt(offset, width) == [offset |-> offset, width |-> width]

\* lines 274-275, 355-356, 418-419: the size and the type of the box at o
BoxHeaderReads(o) == { ReadAt(o, 4), ReadAt(o + 4, 4) }

\* lines 366-379: the version byte, the timescale and the duration word
MvhdReads(o) ==
    LET version == DataByte(file, data, o + 8)
        timeOffset == o + MvhdTimeOffset(version)
    IN  { ReadAt(o + 8, 1), ReadAt(timeOffset, 4),
          ReadAt(timeOffset + MvhdDurationSkip(version), 4) }

\* lines 427-441: the version byte, the width and the height
TkhdReads(o) ==
    LET version == DataByte(file, data, o + 8)
        dimensionOffset == o + TkhdDimensionOffset(version)
    IN  { ReadAt(o + 8, 1), ReadAt(dimensionOffset, 4), ReadAt(dimensionOffset + 4, 4) }

\* lines 188-191: the four fields of avih
AvihReads(o) ==
    { ReadAt(o + AvihMicroSecOffset, 4), ReadAt(o + AvihTotalFramesOffset, 4),
      ReadAt(o + AvihWidthOffset, 4), ReadAt(o + AvihHeightOffset, 4) }

\* the reads of the window that the iteration about to run makes
WalkerReads ==
    CASE pc = "mp4_top" ->
           IF TopInLoop THEN BoxHeaderReads(top.offset) ELSE {}
      [] pc = "moov" ->
           IF ~MoovInLoop THEN {}
           ELSE BoxHeaderReads(moov.offset)
                \cup (IF MoovBreak THEN {}
                      ELSE IF MoovAtomType = TagMvhd THEN MvhdReads(moov.offset)
                      ELSE {})
      [] pc = "trak" ->
           IF ~TrakInLoop THEN {}
           ELSE BoxHeaderReads(trak.offset)
                \cup (IF TrakAtTkhd THEN TkhdReads(trak.offset) ELSE {})
      [] pc = "avi_top" ->
           IF ~AviInLoop THEN {}
           ELSE BoxHeaderReads(avi.offset)
                \cup (IF AviChunkId = TagLIST THEN { ReadAt(avi.offset + 8, 4) } ELSE {})
      [] pc = "avi_hdrl" ->
           IF ~HdrlInLoop THEN {}
           ELSE BoxHeaderReads(hdrl.offset)
                \cup (IF HdrlChunkId = TagAvih THEN AvihReads(hdrl.offset) ELSE {})
      [] OTHER -> {}

\* C21: every read a walker makes (box or chunk header, version byte, mvhd,
\* tkhd and avih fields) has offset >= 0 and offset + width <= data.length.
C21_ReadsInBounds ==
    \A r \in WalkerReads : r.offset >= 0 /\ r.offset + r.width <= data.len

\* the record of the head attempt, when there was one
HeadRecord == results[1]

\* C22: when the moov holds two trak boxes whose tkhd both carry a non-zero
\* width and height, the record has the width and height of the first one.
C22_FirstTrakWins ==
    \A a \in TrackSizes, b \in TrackSizes :
        ( /\ file = Lit(TwoTrakBytes(a, b))
          /\ Len(results) >= 1
          /\ a[1] # 0 /\ a[2] # 0
          /\ b[1] # 0 /\ b[2] # 0 )
        => /\ HeadRecord.width = a[1] \div 65536
           /\ HeadRecord.height = a[2] \div 65536

\* the walker is at an mvhd box of version 1 whose fields the window holds
AtMvhdVersion1 ==
    /\ pc = "moov"
    /\ IF MoovLeaves THEN FALSE ELSE MoovAtomType = TagMvhd
    /\ DataByte(file, data, moov.offset + 8) = 1
    /\ WindowWord(moov.offset + 8 + 36) # <<>>

\* C23 as stated: at an mvhd of version 1 the timescale taken is the u32BE
\* at body offset 28 and the duration the u32BE at body offset 36, the body
\* starting at the version byte (box start + 8) as for version 0.
C23_MvhdVersion1At28And36 ==
    AtMvhdVersion1 =>
        /\ U32BE(MvhdFields(moov.offset).timescale) = WindowWord(moov.offset + 8 + 28)
        /\ U32BE(MvhdFields(moov.offset).duration) = WindowWord(moov.offset + 8 + 36)

\* C23, amended: at an mvhd of version 1 the timescale taken is the 32-bit
\* word at body offset 20 and the duration the 32-bit word at body offset 28
\* (the low half of the 64-bit duration), the body starting at the version
\* byte; counted from the start of the box these are the offsets 28 and 36.
C23_MvhdVersion1At20And28 ==
    AtMvhdVersion1 =>
        /\ U32BE(MvhdFields(moov.offset).timescale) = WindowWord(moov.offset + 8 + 20)
        /\ U32BE(MvhdFields(moov.offset).duration) = WindowWord(moov.offset + 8 + 28)

\* the mvhd of a version-1 movie was read: 1000 ticks a second, 5000 ticks
C23_Witness ==
    /\ pc = "moov"
    /\ truth.kind = "faststart"
    /\ truth.movie.version = 1
    /\ moov.timescale = <<1000>>
    /\ moov.duration = <<5000>>
    /\ WindowWord(8 + 8 + 8 + 20) = U32BE(1000)
    /\ WindowWord(8 + 8 + 8 + 28) = U32BE(5000)

\* the size that the little-endian word w declares, when the walker read it
\* as that size
DeclaredSize(s, w) == w # <<>> /\ IsUnsignedLE(s, w)

\* the offset after a chunk at offset o of declared size s: its header, its
\* body and, for an odd size, one pad byte
PaddedEnd(o, s) == o + 8 + s + (IF s % 2 = 1 THEN 1 ELSE 0)

\* C24: in parseAVIMetadata and in parseAVIHeaderList, after a chunk at
\* offset o with declared size s the next header is read at o + 8 + s for an
\* even s and at o + 8 + s + 1 for an odd s, LIST chunks included.
C24_RiffPadding ==
    [][ /\ ( /\ pc \in {"avi_top", "avi_hdrl"}
             /\ pc' = "avi_top"
             /\ avi'.offset # avi.offset
             /\ WindowWord(avi.offset + 4) # <<>> )
           => /\ DeclaredSize(AviChunkSize, WindowWord(avi.offset + 4))
              /\ avi'.offset = PaddedEnd(avi.offset, AviChunkSize)
        /\ ( /\ pc = "avi_hdrl"
             /\ hdrl'.offset # hdrl.offset
             /\ WindowWord(hdrl.offset + 4) # <<>> )
           => /\ DeclaredSize(HdrlChunkSize, WindowWord(hdrl.offset + 4))
              /\ hdrl'.offset = PaddedEnd(hdrl.offset, HdrlChunkSize) ]_vars

\* C25: a malformed box size ends the iteration of its own level only.  An
\* mvhd followed by a malformed box still gives its timescale and duration
\* to the record of the attempt; a malformed box inside the first trak ends
\* the walk of that trak, and the moov walk goes on to the second trak and
\* takes its width and height.
C25_BadBoxEndsItsLevelOnly ==
    \A w \in BadSizes :
        /\ file = Lit(BadSiblingBytes(w)) =>
             /\ Config \notin seen
             /\ Len(results) >= 1 =>
                  /\ HeadRecord.duration = Ratio(5000, 1000, 1)
                  /\ HeadRecord.width = 0
        /\ file = Lit(BadTrakBytes(w)) =>
             /\ Config \notin seen
             /\ Len(results) >= 1 =>
                  /\ HeadRecord.duration = Ratio(5000, 1000, 1)
                  /\ HeadRecord.width = 640
                  /\ HeadRecord.height = 360

\* the record the MP4 walker has just returned for the current window
LastRecord == results[Len(results)]

\* C26: a window is judged complete only when its mvhd timescale is > 0: a
\* complete record has duration = duration ticks / timescale, and a window
\* with positive duration ticks and a timescale that is not positive never
\* yields a successful outcome.
C26_CompleteNeedsTimescale ==
    ( /\ pc \in {"mp4_judge", "done"}
      /\ walkers = <<"mp4">>
      /\ results # <<>>
      /\ IsComplete(LastRecord) )
    => /\ top.timescale > 0
       /\ LastRecord.duration = Ratio(top.duration, top.timescale, 1)

\* C28: after any interleaving of selections, clears and completions of
\* pending extractions, a non-null videoMetadata is that of the file
\* currently selected, and a completion never sets videoMetadata or
\* metadataError while another call, started later, is the one of the
\* current selection.
C28_MetadataOfCurrentSelection ==
    /\ page.videoMetadata # 0 => page.videoMetadata = page.selectedFile
    /\ page.metadataError => page.selectedFile # 0

(***************************************************************************)
(* FFmpegConverter (src/lib/ffmpeg-wasm.ts, lines 29-459): load,           *)
(* loadFontToFFmpegFS, convertToGif and terminate on one instance, called  *)
(* in any order; load calls may overlap (the page starts one from a timer  *)
(* and one from the start button).  One conversion runs at a time, and     *)
(* terminate is called when no call is in flight.  Each await of a call is *)
(* the end of one step.                                                    *)
(***************************************************************************)
\* the most calls made on the converter in one run of the model
MaxConverterCalls == 4

\* the state of the binary tier
inner == <<file, truth, pc, walkers, attempt, reads, results, data, top, moov, trak,
           avi, hdrl, outcome, seen>>

\* lines 40-72: load() up to its await of ffmpeg.load(): the guard, the two
\* listeners, the call of ffmpeg.load()
Load ==
    /\ pc = "idle"
    /\ converter.calls < MaxConverterCalls
    /\ converter' =
         IF converter.loaded
         THEN [converter EXCEPT !.calls = @ + 1]
         ELSE [converter EXCEPT !.calls = @ + 1, !.listeners = @ + 1,
                                !.loads = @ + 1, !.loading = @ + 1]
    /\ UNCHANGED <<inner, first, meta, page, calc, upload>>

\* lines 72-76 and 113: ffmpeg.load() resolves; loaded is set and
\* loadFontToFFmpegFS starts, or returns at once when fontLoaded is set
FFmpegLoaded ==
    /\ pc = "idle"
    /\ converter.loading > 0
    /\ converter' =
         IF converter.fontLoaded
         THEN [converter EXCEPT !.loading = @ - 1, !.loaded = TRUE]
         ELSE [converter EXCEPT !.loading = @ - 1, !.loaded = TRUE, !.fonting = @ + 1]
    /\ UNCHANGED <<inner, first, meta, page, calc, upload>>

\* lines 84-109: ffmpeg.load() rejects and load() throws
FFmpegLoadFails ==
    /\ pc = "idle"
    /\ converter.loading > 0
    /\ converter' = [converter EXCEPT !.loading = @ - 1, !.failed = TRUE]
    /\ UNCHANGED <<inner, first, meta, page, calc, upload>>

\* lines 115-127: the font is fetched and written to the virtual file system
FontWritten ==
    /\ pc = "idle"
    /\ converter.fonting > 0
    /\ converter' = [converter EXCEPT !.fonting = @ - 1, !.font = TRUE,
                                      !.fontLoaded = TRUE]
    /\ UNCHANGED <<inner, first, meta, page, calc, upload>>

\* lines 128-138: the fetch or the write fails
FontFails ==
    /\ pc = "idle"
    /\ converter.fonting > 0
    /\ converter' = [converter EXCEPT !.fonting = @ - 1, !.fontLoaded = FALSE,
                                      !.failed = TRUE]
    /\ UNCHANGED <<inner, first, meta, page, calc, upload>>

\* lines 233-244: the filter of a conversion: drawtext with the font file
\* for a non-empty copyright text
FilterOf(copyright, font) ==
    IF ~copyright THEN "plain"
    ELSE IF font THEN "drawtext"
    ELSE "drawtext_nofont"

\* lines 142-165: convertToGif is called; it throws at once unless the
\* converter and the font are loaded
ConvertToGif ==
    /\ pc = "idle"
    /\ converter.calls < MaxConverterCalls
    /\ converter.converting = "none"
    /\ \E copyright \in BOOLEAN :
         converter' =
           IF ~converter.loaded \/ ~converter.fontLoaded
           THEN [converter EXCEPT !.calls = @ + 1]
           ELSE [converter EXCEPT !.calls = @ + 1,
                                  !.converting = FilterOf(copyright, converter.font)]
    /\ UNCHANGED <<inner, first, meta, page, calc, upload>>

\* lines 385-427: the output was read; the clean-up deletes the input, the
\* output and the font file
ConvertSucceeds ==
    /\ pc = "idle"
    /\ converter.converting \in {"plain", "drawtext"}
    /\ converter' = [converter EXCEPT !.converting = "none", !.font = FALSE]
    /\ UNCHANGED <<inner, first, meta, page, calc, upload>>

\* lines 430-449: the conversion fails; the clean-up deletes the font file
\* when the two deletions before it succeed
ConvertFails ==
    /\ pc = "idle"
    /\ converter.converting # "none"
    /\ \E deleted \in BOOLEAN :
         converter' = [converter EXCEPT !.converting = "none",
                                        !.font = IF deleted THEN FALSE ELSE @]
    /\ UNCHANGED <<inner, first, meta, page, calc, upload>>

\* lines 452-458: terminate; the worker and its file system are gone
Terminate ==
    /\ pc = "idle"
    /\ converter.calls < MaxConverterCalls
    /\ converter.loading = 0 /\ converter.fonting = 0
    /\ converter.converting = "none"
    /\ converter' = [converter EXCEPT !.calls = @ + 1, !.loaded = FALSE,
                                      !.fontLoaded = FALSE, !.font = FALSE,
                                      !.terminated = TRUE]
    /\ UNCHANGED <<inner, first, meta, page, calc, upload>>

ConverterInit == CalcInit

ConverterNext ==
    \/ Load
    \/ FFmpegLoaded
    \/ FFmpegLoadFails
    \/ FontWritten
    \/ FontFails
    \/ ConvertToGif
    \/ ConvertSucceeds
    \/ ConvertFails
    \/ Terminate

ConverterSpec == ConverterInit /\ [][ConverterNext]_vars

\* C27: whatever calls of load, convertToGif and terminate were made,
\* fontLoaded = true implies that the font file is in the virtual file
\* system, so that a conversion with a copyright text finds it.
C27_FontLoadedMeansFontPresent ==
    /\ converter.fontLoaded => converter.font
    /\ converter.converting # "drawtext_nofont"

\* C29: as long as no load has failed and terminate was not called, however
\* the calls of load() overlap, ffmpeg.load() was invoked at most once and
\* the 'progress' and 'log' listeners were registered at most once.
C29_LoadsOnce ==
    (~converter.failed /\ ~converter.terminated)
    => /\ converter.loads <= 1
       /\ converter.listeners <= 1

(***************************************************************************)
(* handleStartConversion, the Imgur upload loop (page.tsx lines 409-444).  *)
(* A fetch resolves with a response, known here by its status, or rejects; *)
(* requests holds what each fetch gave and waits the waiting times in ms.  *)
(***************************************************************************)
\* line 412
maxRetries == 3

\* what a fetch can give: the status of a response, or 0 for a rejection
FetchResults == {0, 200, 400, 429, 500, 503}

\* Response.ok
IsOk(status) == 200 <= status /\ status <= 299

\* a retry test that leaves out the rate-limit status
Retryable_ServerErrorsOnly(status) == status >= 500

\* line 435: the statuses after which another attempt may be made
Retryable(status) == status = 429 \/ status >= 500

RECURSIVE Pow2(_)
\* Math.pow(2, n)
Pow2(n) == IF n = 0 THEN 1 ELSE 2 * Pow2(n - 1)

\* lines 410-414: the locals are set and the loop is entered
UploadStart ==
    /\ pc = "idle"
    /\ upload.pc = "idle"
    /\ upload' = [NoUpload EXCEPT !.pc = "fetch"]
    /\ UNCHANGED <<inner, first, meta, page, calc, converter>>

\* lines 415-443: the fetch of one iteration settles and the iteration runs
\* up to its break, its wait, or the exception of a rejected fetch
FetchSettles ==
    /\ pc = "idle"
    /\ upload.pc = "fetch"
    /\ \E r \in FetchResults :
         upload' =
           IF r = 0
           THEN [upload EXCEPT !.pc = "thrown", !.requests = Append(@, r)]
           ELSE IF IsOk(r) \/ (r # 429 /\ r < 500)
           THEN [upload EXCEPT !.pc = "evaluate", !.uploadResponse = r,
                               !.requests = Append(@, r)]
           ELSE IF upload.retryCount < maxRetries /\ Retryable(r)
           THEN [upload EXCEPT !.pc = "wait", !.uploadResponse = r,
                               !.requests = Append(@, r),
                               !.waits = Append(@, Pow2(upload.retryCount) * 1000)]
           ELSE [upload EXCEPT !.pc = "evaluate", !.uploadResponse = r,
                               !.requests = Append(@, r)]
    /\ UNCHANGED <<inner, first, meta, page, calc, converter>>

\* lines 438-439 and 414: the wait is over; retryCount++ and the loop test
WaitEnds ==
    /\ pc = "idle"
    /\ upload.pc = "wait"
    /\ upload' = [upload EXCEPT
                    !.retryCount = @ + 1,
                    !.pc = IF upload.retryCount + 1 <= maxRetries
                           THEN "fetch" ELSE "evaluate"]
    /\ UNCHANGED <<inner, first, meta, page, calc, converter>>

UploadInit == CalcInit

UploadNext ==
    \/ UploadStart
    \/ FetchSettles
    \/ WaitEnds

UploadSpec == UploadInit /\ [][UploadNext]_vars

\* a status after which the upload is tried again: 429, or 500 and above
MayRetry(status) == status = 429 \/ status >= 500

\* at most 4 requests; a request after the first only after a response of
\* status 429 or >= 500 and a wait of 1 s, 2 s and 4 s in turn; such a
\* response is followed by a wait while fewer than 4 requests were sent
UploadAttemptsInOrder ==
    LET n == Len(upload.requests)
    IN  /\ n <= 4
        /\ Len(upload.waits) <= 3
        /\ \A k \in 1..Len(upload.waits) : upload.waits[k] = <<1000, 2000, 4000>>[k]
        /\ \A k \in 2..n :
             /\ MayRetry(upload.requests[k - 1])
             /\ Len(upload.waits) >= k - 1
        /\ upload.pc = "fetch" => Len(upload.waits) = n
        /\ upload.pc = "evaluate" =>
             /\ n >= 1
             /\ upload.uploadResponse = upload.requests[n]
             /\ MayRetry(upload.uploadResponse) => n = 4

=============================================================================
